---- MODULE Spec2Model ----
(***************************************************************************)
(* Resilient navigation, readiness and notification detection of the CRM    *)
(* end-to-end suite: TimesheetPage.goto, the retrying LoginPage.goto,       *)
(* waitForToast, LoginPage.waitForLoginSuccess, LoginPage.login, the        *)
(* concurrent login flows and the batch loop of the bulk-login test, and    *)
(* TimesheetPage.createTimesheetIfNeeded.                                   *)
(*                                                                          *)
(* Texts (error messages, URLs, page and toast texts, patterns) are         *)
(* sequences of string fragments; String.includes and RegExp.test are       *)
(* contiguous-subsequence searches over the fragments.                      *)
(***************************************************************************)
EXTENDS Integers, Sequences, FiniteSets, TLC

VARIABLES
    callee,        \* which goto is running: "TimesheetPage" or "LoginPage"
    maxRetries,    \* the argument of goto
    attempt,       \* loop index of the retry loop
    pc,            \* position of the goto call
    error,         \* message of the exception in flight (Undefined if none)
    lastError,     \* the local lastError (Undefined while unset)
    thrown,        \* message of the error goto threw (Undefined if none)
    navCount,      \* number of page.goto calls made by this goto call
    retries,       \* number of times a retry went back to attempting
    url,           \* page.url()
    loading,       \* 'Loading timesheet data' indicator is visible
    loadingAttempt,\* index of the loading poll loop
    buttons,       \* timesheet buttons currently on the page
    managerActive, \* Manager View is the selected view
    emailInput,    \* the email input of the login page as goto last saw it
    waited,        \* ms spent in waitForTimeout since the last failed attempt
    lastFailConn,  \* the last failed attempt failed with a connection error
    gaps,          \* per retry: ms waited between the failure and the next navigation
    failLog,       \* per failed attempt: the class of the failure
    \* waitForToast
    tpc,           \* position of the waitForToast call
    titleText,     \* the titleText argument
    descriptionText, \* the descriptionText argument
    container,     \* the first notification container on the page
    pageRest,      \* the text of the page outside the container
    toastText,     \* the local toastText
    tWarned,       \* the title mismatch warning was logged
    tError,        \* the error waitForToast threw ("none" if none)
    \* waitForLoginSuccess
    wpc,           \* position of the waitForLoginSuccess call
    variant,       \* which LoginPage file the method comes from
    expectedUrl,   \* the expectedUrl argument
    wUrl,          \* page.url() of the login flow
    elements,      \* candidate error elements of the page, in document order
    firstEvent,    \* what happened first after the submission
    wError,        \* message of the error waitForLoginSuccess threw
    \* LoginPage.login
    spc,           \* position of the login call
    sVariant,      \* which LoginPage file the method comes from
    sEmail,        \* the email argument
    sPassword,     \* the password argument
    sUrl,          \* page.url() when a step looks at it
    fields,        \* the values of the email and password inputs
    performed,     \* the actions done on the form so far, in order
    sGotos,        \* number of goto calls made by enterEmail
    sError,        \* the await of login that rejected, and how (<<>> if none)
    \* the bulk-login test
    fpc,           \* per login flow: position of its testLoginForEmail call
    slot,          \* the locals `context` and `page` of the calls (0: undefined)
    contexts,      \* the browser contexts created so far, by id
    results,       \* the shared results object
    \* the batches of the bulk-login test
    bpc,           \* position of the test body in its batch loop
    batchIndex,    \* the loop variable batchIndex
    life,          \* per email of the list: how far its login flow is
    open,          \* the indexes of the flows whose browser context is open
    \* createTimesheetIfNeeded
    cpc,           \* position of the createTimesheetIfNeeded call
    addActivity,   \* the Add Activity button: "hidden", "disabled" or "enabled"
    atStart,       \* the Add Activity button when the call started
    modal,         \* the create timesheet dialog is open
    week,          \* the week the dialog shows, relative to the current week
    full,          \* the weeks in which every day already has a timesheet
    weekButtons,   \* which of the week buttons of the dialog are visible
    clicks,        \* the buttons the call clicked, in order
    reported,      \* the weeks for which the call saw the all-days message
    observed,      \* the call saw the Add Activity button enabled
    cError         \* the error createTimesheetIfNeeded threw ("none" if none)

gotoVars == <<callee, maxRetries, attempt, pc, error, lastError, thrown,
              navCount, retries, url, loading, loadingAttempt, buttons,
              managerActive, emailInput, waited, lastFailConn, gaps, failLog>>

toastVars == <<tpc, titleText, descriptionText, container, pageRest,
               toastText, tWarned, tError>>

loginVars == <<wpc, variant, expectedUrl, wUrl, elements, firstEvent, wError>>

seqVars == <<spc, sVariant, sEmail, sPassword, sUrl, fields, performed,
             sGotos, sError>>

bulkVars == <<fpc, slot, contexts, results>>

batchVars == <<bpc, batchIndex, life, open>>

createVars == <<cpc, addActivity, atStart, modal, week, full, weekButtons,
                clicks, reported, observed, cError>>

nonGotoVars == <<toastVars, loginVars, seqVars, bulkVars,
    batchVars, createVars>>
nonToastVars == <<gotoVars, loginVars, seqVars, bulkVars,
    batchVars, createVars>>
nonLoginVars == <<gotoVars, toastVars, seqVars, bulkVars,
    batchVars, createVars>>
nonSeqVars == <<gotoVars, toastVars, loginVars, bulkVars,
    batchVars, createVars>>
nonBulkVars == <<gotoVars, toastVars, loginVars, seqVars,
    batchVars, createVars>>
nonBatchVars == <<gotoVars, toastVars, loginVars, seqVars, bulkVars,
    createVars>>
nonCreateVars == <<gotoVars, toastVars, loginVars, seqVars, bulkVars,
    batchVars>>

vars == <<gotoVars, toastVars, loginVars, seqVars, bulkVars,
    batchVars, createVars>>

----------------------------------------------------------------------------
(* Bounds *)

MaxRetriesBound == 3

\* error elements that may show up while waitForLoginSuccess waits
MaxElements == 2

\* number of login flows of the bulk-login test that run at the same time
NumFlows == 2

\* length of the emails list of the bulk-login test
NumEmails == 11

----------------------------------------------------------------------------
(* Texts *)

Undefined == <<>>

\* String.prototype.includes over fragment sequences
Includes(s, needle) ==
    \E i \in 0..(Len(s) - Len(needle)) :
        \A j \in 1..Len(needle) : s[i + j] = needle[j]

Digit(d) ==
    CASE d = 0 -> "0" [] d = 1 -> "1" [] d = 2 -> "2" [] d = 3 -> "3"
      [] d = 4 -> "4" [] d = 5 -> "5" [] d = 6 -> "6" [] d = 7 -> "7"
      [] d = 8 -> "8" [] OTHER -> "9"

\* `${n}` in a template literal: the decimal digits of n
RECURSIVE NumStr(_)
NumStr(n) ==
    IF n < 10 THEN <<Digit(n)>> ELSE NumStr(n \div 10) \o <<Digit(n % 10)>>

Host == "http://46.62.211.210:4003"

LoginUrl == <<Host, "/auth/login">>
LoginRedirectUrl == <<Host, "/auth/login", "?redirect=", "/dashboard/timesheet">>
TimesheetUrl == <<Host, "/dashboard/timesheet">>
WelcomeUrl == <<Host, "/dashboard/welcome">>
BlankUrl == <<"about:blank">>

LandingUrls == {LoginUrl, LoginRedirectUrl, TimesheetUrl, WelcomeUrl}

\* messages of the errors page.goto rejects with
ConnRefusedMsg == <<"page.goto: ", "net::", "ERR", "_CONNECTION_REFUSED", " at ", Host>>
NetworkChangedMsg == <<"page.goto: ", "net::", "ERR", "_NETWORK_CHANGED", " at ", Host>>
NavTimeoutMsg == <<"page.goto: ", "Timeout 60000ms exceeded.">>

NavErrors == {ConnRefusedMsg, NetworkChangedMsg, NavTimeoutMsg}

\* messages of the errors the Playwright waits and expectations reject with
UrlMismatchMsg == <<"expect(page).toHaveURL", "Timed out 10000ms">>
SelectorTimeoutMsg == <<"page.waitForSelector: ", "Timeout 10000ms exceeded.">>
WaitForTimeoutMsg == <<"locator.waitFor: ", "Timeout 30000ms exceeded.">>

\* messages of TimesheetPage.goto
AuthFailedMsg == <<"Authentication failed", " - redirected to login page.">>
StillLoadingRetryMsg == <<"Page is still loading.", " Retrying...">>
StillLoadingMsg == <<"Page is still loading", " after 40+ seconds.">>
ButtonsRetryMsg == <<"Buttons not found.", " Retrying...">>
TookTooLongMsg == <<"Page took too long to load.">>
PageErrorMsg == <<"Page shows an ", "error", ". Check page content for details.">>
EmptyRetryMsg == <<"Page appears empty.", " Retrying...">>
EmptyMsg == <<"Page appears empty.", " Check if page loaded correctly.">>
ContentRetryMsg == <<"Buttons not found but page has content.", " Retrying...">>
PermissionMsg(len) ==
    <<"Timesheet buttons not found. ", "Page has content (">> \o NumStr(len) \o
    <<" chars) but buttons missing. ", "User might not have ", "permission",
      " to view timesheet.">>
DefaultFailMsg == <<"Failed to load timesheet page">>
TimesheetExhaustedMsg(n, msg) ==
    <<"Failed to load timesheet page after ">> \o NumStr(n) \o
    <<" attempts. ", "Last error: ">> \o msg

\* messages of LoginPage.goto
ServiceErrorMsg == <<"Service not available", " - server connectivity issue detected">>
NotEnabledMsg == <<"Email input field is not enabled", " - page may be in error state">>
ServiceStillMsg == <<"Service error still present after waiting", " - retrying...">>
LoginConnExhaustedMsg(msg) ==
    <<"Connection refused", " by server - server may be overwhelmed or unavailable. ",
      "Original error: ">> \o msg
\* the exhaustion message without the last error
LoginExhaustedMsgNoCause(n, msg) ==
    <<"Failed to navigate to login page after ">> \o NumStr(n) \o
    <<" attempts: ">>

LoginExhaustedMsg(n, msg) ==
    <<"Failed to navigate to login page after ">> \o NumStr(n) \o
    <<" attempts: ">> \o msg

----------------------------------------------------------------------------
(* Patterns and texts of waitForToast; a text is a sequence of words *)

\* the case folding RegExp.test applies under the i flag
Lower(w) ==
    CASE w = "Please" -> "please" [] w = "Project" -> "project"
      [] w = "Validation" -> "validation" [] w = "Error" -> "error"
      [] w = "Overlapping" -> "overlapping" [] w = "Time" -> "time"
      [] w = "Range" -> "range" [] w = "This" -> "this"
      [] w = "Enter" -> "enter" [] w = "An" -> "an"
      [] w = "Invalid" -> "invalid" [] w = "Failed" -> "failed"
      [] w = "Login" -> "login" [] w = "Access" -> "access"
      [] w = "Welcome" -> "welcome" [] w = "Sign" -> "sign"
      [] w = "In" -> "in" [] w = "Conflict" -> "conflict"
      [] w = "Timesheet" -> "timesheet"
      [] OTHER -> w

LowerAll(t) == [k \in DOMAIN t |-> Lower(t[k])]

\* a titleText / descriptionText argument: null, or a RegExp with the i flag
\* given by its alternatives
NoPattern == [given |-> FALSE, alts |-> {}]
RegExpI(alts) == [given |-> TRUE, alts |-> alts]

RegExpTestAnchored(pattern, text) ==
    \E a \in pattern.alts : LowerAll(text) = LowerAll(a)

\* pattern.test(text)
RegExpTest(pattern, text) ==
    \E a \in pattern.alts : Includes(LowerAll(text), LowerAll(a))

PleaseSelectProject == RegExpI({<<"Please", "select", "a", "Project">>})
ValidationErrorTitle == RegExpI({<<"Validation", "Error">>})
OverlappingTitle == RegExpI({<<"Overlapping", "Time", "Range">>})
OverlapBody ==
    RegExpI({<<"This", "time", "slot", "is", "already", "covered">>,
             <<"An", "activity", "with", "overlapping", "time", "range", "already", "exists">>})

TitlePatterns == {NoPattern, ValidationErrorTitle, OverlappingTitle}
DescriptionPatterns == {NoPattern, PleaseSelectProject, OverlapBody}

ValidationProjectText == <<"Validation", "Error", ":", "Please", "select", "a", "Project">>
CredentialsText == <<"Enter", "your", "credentials", "to", "access", "your", "account">>
CoveredText == <<"Time", "Conflict", "This", "time", "slot", "is", "already", "covered">>
ProjectLowerText == <<"please", "select", "a", "project">>

ToastTexts == {<<>>, ValidationProjectText, CredentialsText, CoveredText, ProjectLowerText}
PageRestTexts == {<<>>, CredentialsText, <<"Timesheet">> \o ValidationProjectText}

\* the first element a toast selector finds: shown or absent, and its text
NoContainer == [visible |-> FALSE, text |-> <<>>]
Containers == {NoContainer} \cup {[visible |-> TRUE, text |-> t] : t \in ToastTexts}

\* a toast may be dismissed during any wait
ContainerAfterWait(c) == {c, NoContainer}

\* body.textContent()
BodyText(rest, c) == rest \o c.text

----------------------------------------------------------------------------
(* Page content seen by TimesheetPage.goto *)

AllButtons == {"Add Timesheet", "My View", "Manager View"}

\* body.textContent(): the text and its length in characters
BodyNone == [text |-> <<>>, length |-> 0]
BodyLoadingData == [text |-> <<"Loading", " timesheet data">>, length |-> 22]
BodyLoadingOther == [text |-> <<"Loading", " dashboard">>, length |-> 17]
BodyError == [text |-> <<"Internal Server ", "Error">>, length |-> 21]
BodyShort == [text |-> <<"Timesheet">>, length |-> 9]
BodyContent == [text |-> <<"Timesheet", " You have no access to this module.">>, length |-> 120]

Bodies == {BodyNone, BodyLoadingData, BodyLoadingOther, BodyError, BodyShort, BodyContent}

\* the indicator's text is part of the body text while the indicator is shown
BodiesWhile(isLoading) ==
    {b \in Bodies : isLoading => Includes(b.text, <<"Loading", " timesheet data">>)}

\* a loading indicator that is gone stays gone until the next navigation
LoadingAfterWait(isLoading) == IF isLoading THEN BOOLEAN ELSE {FALSE}

----------------------------------------------------------------------------
(* Retry loop shared by both goto methods *)

LoadingPollLimit == 6

\* for (...; attempt < maxRetries; ...)
LoopCond(a, n) == a < n

ForIncrementStuck(a) == a

\* for (...; ...; attempt++)
ForIncrement(a) == a + 1

\* if (attempt < maxRetries - 1)
HasAttemptsLeftShort(a, n) == a < n - 2

HasAttemptsLeft(a, n) == a < n - 1

IsLastAttemptLate(a, n) == a = n

\* if (attempt === maxRetries - 1)
IsLastAttempt(a, n) == a = n - 1

IsAuthenticationErrorNever(msg) == FALSE

\* error.message.includes('Authentication failed')
IsAuthenticationError(msg) == Includes(msg, <<"Authentication failed">>)

\* the retry message of the second button wait taken for a permission error
IsPermissionErrorButtons(msg) ==
    \/ Includes(msg, <<"permission">>)
    \/ Includes(msg, <<"Buttons not found.">>)

\* error.message.includes('permission')
IsPermissionError(msg) == Includes(msg, <<"permission">>)

\* every failure taken for a connection failure
IsConnectionErrorAny(msg) == msg # Undefined

\* the isConnectionError test of LoginPage.goto
IsConnectionError(msg) ==
    \/ Includes(msg, <<"ERR", "_CONNECTION_REFUSED">>)
    \/ Includes(msg, <<"ERR", "_NETWORK_CHANGED">>)
    \/ Includes(msg, <<"net::", "ERR">>)
    \/ Includes(msg, <<"Connection refused">>)

\* the class of a failed attempt, as the catch of LoginPage.goto tells them apart
FailureClass(msg) ==
    IF Includes(msg, <<"ERR", "_CONNECTION_REFUSED">>) THEN "refused"
    ELSE IF IsConnectionError(msg) THEN "connection"
    ELSE "other"

\* const delay = attempt * 2000
RetryDelayMs(a) == a * 2000

\* const connectionRetryDelay = (attempt + 1) * 5000
ConnectionRetryDelayMs(a) == (a + 1) * 5000

\* no waitForToast call is in progress
ToastIdle ==
    /\ tpc = "Idle"
    /\ titleText = NoPattern
    /\ descriptionText = NoPattern
    /\ container = NoContainer
    /\ pageRest = <<>>
    /\ toastText = <<>>
    /\ tWarned = FALSE
    /\ tError = "none"

\* no waitForLoginSuccess call is in progress
LoginIdle ==
    /\ wpc = "Idle"
    /\ variant = "pages/LoginPage.js"
    /\ expectedUrl = "/dashboard/welcome"
    /\ wUrl = LoginUrl
    /\ elements = <<>>
    /\ firstEvent = "none"
    /\ wError = Undefined

\* no login call is in progress
SeqIdle ==
    /\ spc = "Idle"
    /\ sVariant = "pages/LoginPage.js"
    /\ sEmail = ""
    /\ sPassword = ""
    /\ sUrl = LoginUrl
    /\ fields = [email |-> "", password |-> ""]
    /\ performed = <<>>
    /\ sGotos = 0
    /\ sError = <<>>

\* the login flows of the bulk-login test, by index
Flows == 1..NumFlows

\* the bulk-login test has started no flow
BulkIdle ==
    /\ fpc = [i \in Flows |-> "NotStarted"]
    /\ slot = [i \in Flows |-> 0]
    /\ contexts = <<>>
    /\ results = [successful |-> <<>>, failed |-> <<>>]

\* the emails of the list, by position (globalIndex + 1)
EmailIndexes == 1..NumEmails

\* the bulk-login test has not entered its batch loop
BatchIdle ==
    /\ bpc = "NotStarted"
    /\ batchIndex = 0
    /\ life = [i \in EmailIndexes |-> "Pending"]
    /\ open = {}

\* createTimesheetIfNeeded has not been called
CreateIdle ==
    /\ cpc = "Idle"
    /\ addActivity = "enabled"
    /\ atStart = "enabled"
    /\ modal = FALSE
    /\ week = 0
    /\ full = {}
    /\ weekButtons = {}
    /\ clicks = <<>>
    /\ reported = <<>>
    /\ observed = FALSE
    /\ cError = "none"

Init ==
    /\ CreateIdle
    /\ BatchIdle
    /\ ToastIdle
    /\ LoginIdle
    /\ SeqIdle
    /\ BulkIdle
    /\ callee \in {"TimesheetPage", "LoginPage"}
    /\ maxRetries \in 0..MaxRetriesBound
    /\ attempt = 0
    /\ pc = "Idle"
    /\ error = Undefined
    /\ lastError = Undefined
    /\ thrown = Undefined
    /\ navCount = 0
    /\ retries = 0
    /\ url = BlankUrl
    /\ loading = FALSE
    /\ loadingAttempt = 0
    /\ buttons = {}
    /\ managerActive = FALSE
    /\ emailInput = "unknown"
    /\ waited = 0
    /\ lastFailConn = FALSE
    /\ gaps = <<>>
    /\ failLog = <<>>

pageVars == <<url, loading, loadingAttempt, buttons, managerActive, emailInput>>
waitVars == <<waited, lastFailConn, gaps, failLog>>

\* goto(maxRetries) is called: let attempt = 0
Call ==
    /\ pc = "Idle"
    /\ pc' = "LoopHead"
    /\ UNCHANGED <<callee, maxRetries, attempt, error, lastError, thrown,
                   navCount, retries, pageVars, waitVars>>
    /\ UNCHANGED nonGotoVars

\* the loop test, then the top of the try block
LoopHead ==
    /\ pc = "LoopHead"
    /\ pc' = IF LoopCond(attempt, maxRetries)
             THEN (IF attempt > 0 THEN "Delay" ELSE "Navigate")
             ELSE "AfterLoop"
    /\ UNCHANGED <<callee, maxRetries, attempt, error, lastError, thrown,
                   navCount, retries, pageVars, waitVars>>
    /\ UNCHANGED nonGotoVars

\* if (attempt > 0) await this.page.waitForTimeout(attempt * 2000)
RetryDelay ==
    /\ pc = "Delay"
    /\ waited' = waited + RetryDelayMs(attempt)
    /\ retries' = retries + 1
    /\ pc' = "Navigate"
    /\ UNCHANGED <<callee, maxRetries, attempt, error, lastError, thrown,
                   navCount, pageVars, lastFailConn, gaps, failLog>>
    /\ UNCHANGED nonGotoVars

\* a throw inside the try block: control goes to the catch clause
Throw(msg) ==
    /\ error' = msg
    /\ pc' = "Catch"

\* `continue` (from the try block or from the catch clause)
Continue ==
    /\ attempt' = ForIncrement(attempt)
    /\ pc' = "LoopHead"

\* the recording of the waits that preceded a navigation
GapsAtNavigate ==
    IF attempt > 0
    THEN Append(gaps, [after |-> attempt, conn |-> lastFailConn, ms |-> waited])
    ELSE gaps

----------------------------------------------------------------------------
(* TimesheetPage.goto *)

\* await this.page.goto('/dashboard/timesheet', ...)
TS_Navigate ==
    /\ pc = "Navigate" /\ callee = "TimesheetPage"
    /\ navCount' = navCount + 1
    /\ gaps' = GapsAtNavigate
    /\ \/ /\ \E e \in NavErrors : Throw(e)
          /\ UNCHANGED pageVars
       \/ /\ \E u \in LandingUrls : url' = u
          /\ loading' \in BOOLEAN
          /\ loadingAttempt' = 0
          /\ buttons' = {}
          /\ managerActive' = FALSE
          /\ pc' = "CheckAuth"
          /\ UNCHANGED error
    /\ UNCHANGED <<callee, maxRetries, attempt, lastError, thrown, retries,
                   waited, lastFailConn, failLog>>
    /\ UNCHANGED emailInput
    /\ UNCHANGED nonGotoVars

\* the authentication check left out
TS_CheckAuthSkipped ==
    /\ pc = "CheckAuth"
    /\ pc' = "VerifyUrl"
    /\ UNCHANGED <<callee, maxRetries, attempt, error, lastError, thrown,
                   navCount, retries, pageVars, waitVars>>
    /\ UNCHANGED nonGotoVars

\* if (this.page.url().includes('/auth/login')) throw ...
TS_CheckAuth ==
    /\ pc = "CheckAuth"
    /\ IF Includes(url, <<"/auth/login">>)
       THEN Throw(AuthFailedMsg)
       ELSE pc' = "VerifyUrl" /\ UNCHANGED error
    /\ UNCHANGED <<callee, maxRetries, attempt, lastError, thrown, navCount,
                   retries, pageVars, waitVars>>
    /\ UNCHANGED nonGotoVars

\* expect(page).toHaveURL(/\/dashboard\/timesheet/), the network wait and
\* the 4 s wait for rendering
TS_VerifyUrl ==
    /\ pc = "VerifyUrl"
    /\ \/ /\ \/ Includes(url, <<"/dashboard/timesheet">>) /\ UNCHANGED url
             \/ ~Includes(url, <<"/dashboard/timesheet">>) /\ url' = TimesheetUrl
          /\ loading' \in LoadingAfterWait(loading)
          /\ loadingAttempt' = 0
          /\ pc' = "LoadingPoll"
          /\ UNCHANGED error
       \/ /\ ~Includes(url, <<"/dashboard/timesheet">>)
          /\ Throw(UrlMismatchMsg)
          /\ UNCHANGED <<url, loading, loadingAttempt>>
    /\ UNCHANGED <<callee, maxRetries, attempt, lastError, thrown, navCount,
                   retries, buttons, managerActive, emailInput, waitVars>>
    /\ UNCHANGED nonGotoVars

\* one iteration of the loading poll loop (6 checks, 5 s apart)
TS_LoadingPoll ==
    /\ pc = "LoadingPoll"
    /\ IF loadingAttempt < LoadingPollLimit /\ loading
       THEN /\ loading' \in LoadingAfterWait(loading)
            /\ loadingAttempt' = loadingAttempt + 1
            /\ UNCHANGED pc
       ELSE /\ pc' = "WaitButtons"
            /\ UNCHANGED <<loading, loadingAttempt>>
    /\ UNCHANGED <<callee, maxRetries, attempt, error, lastError, thrown,
                   navCount, retries, url, buttons, managerActive, emailInput, waitVars>>
    /\ UNCHANGED nonGotoVars

\* waitForSelector(any of the three buttons, 30 s)
TS_WaitButtons ==
    /\ pc = "WaitButtons"
    /\ loading' \in LoadingAfterWait(loading)
    /\ buttons' \in SUBSET AllButtons
    /\ managerActive' \in (IF "Manager View" \in buttons' THEN BOOLEAN ELSE {FALSE})
    /\ pc' = IF buttons' # {} THEN "EnsureMyView" ELSE "Diagnose"
    /\ UNCHANGED <<callee, maxRetries, attempt, error, lastError, thrown,
                   navCount, retries, url, loadingAttempt, waitVars>>
    /\ UNCHANGED emailInput
    /\ UNCHANGED nonGotoVars

\* the catch (e) of the button wait: classify what is on the page
TS_Diagnose ==
    /\ pc = "Diagnose"
    /\ \E body \in BodiesWhile(loading) :
        IF Includes(body.text, <<"Loading", " timesheet data">>) \/ Includes(body.text, <<"Loading">>)
        THEN \E l \in LoadingAfterWait(loading) :
               /\ loading' = l
               /\ IF l
                  THEN IF HasAttemptsLeft(attempt, maxRetries)
                       THEN /\ lastError' = StillLoadingRetryMsg
                            /\ Continue
                            /\ waited' = 0
                            /\ UNCHANGED error
                       ELSE /\ Throw(StillLoadingMsg)
                            /\ UNCHANGED <<attempt, lastError, waited>>
                  ELSE /\ pc' = "ButtonsAgain"
                       /\ UNCHANGED <<attempt, error, lastError, waited>>
        ELSE IF Includes(body.text, <<"error">>) \/ Includes(body.text, <<"Error">>)
        THEN /\ Throw(PageErrorMsg)
             /\ UNCHANGED <<attempt, lastError, waited, loading>>
        ELSE IF body.text = <<>> \/ body.length < 50
        THEN IF HasAttemptsLeft(attempt, maxRetries)
             THEN /\ lastError' = EmptyRetryMsg
                  /\ Continue
                  /\ waited' = 0
                  /\ UNCHANGED <<error, loading>>
             ELSE /\ Throw(EmptyMsg)
                  /\ UNCHANGED <<attempt, lastError, waited, loading>>
        ELSE IF HasAttemptsLeft(attempt, maxRetries)
             THEN /\ lastError' = ContentRetryMsg
                  /\ Continue
                  /\ waited' = 0
                  /\ UNCHANGED <<error, loading>>
             ELSE /\ Throw(PermissionMsg(body.length))
                  /\ UNCHANGED <<attempt, lastError, waited, loading>>
    /\ failLog' = IF pc' = "LoopHead"
                  THEN Append(failLog, FailureClass(lastError'))
                  ELSE failLog
    /\ UNCHANGED <<callee, maxRetries, thrown, navCount, retries, url,
                   loadingAttempt, buttons, managerActive, emailInput, lastFailConn, gaps>>
    /\ UNCHANGED nonGotoVars

\* the second waitForSelector (10 s) and its .catch
TS_ButtonsAgain ==
    /\ pc = "ButtonsAgain"
    /\ buttons' \in SUBSET AllButtons
    /\ managerActive' \in (IF "Manager View" \in buttons' THEN BOOLEAN ELSE {FALSE})
    /\ IF buttons' # {}
       THEN /\ pc' = "EnsureMyView"
            /\ UNCHANGED <<error, lastError>>
       ELSE IF HasAttemptsLeft(attempt, maxRetries)
            THEN /\ lastError' = ButtonsRetryMsg
                 /\ Throw(ButtonsRetryMsg)
            ELSE /\ Throw(TookTooLongMsg)
                 /\ UNCHANGED lastError
    /\ UNCHANGED <<callee, maxRetries, attempt, thrown, navCount, retries,
                   url, loading, loadingAttempt, waitVars>>
    /\ UNCHANGED emailInput
    /\ UNCHANGED nonGotoVars

\* waitForTimeout(2000); ensureMyViewMode(): switch to My View when Manager
\* View is active, then wait for the Add Timesheet button
TS_EnsureMyView ==
    /\ pc = "EnsureMyView"
    /\ loading' \in LoadingAfterWait(loading)
    /\ \E switched \in {managerActive /\ "Manager View" \in buttons /\ "My View" \in buttons} :
         /\ managerActive' = (managerActive /\ ~switched)
         /\ buttons' \in {buttons, buttons \cup {"Add Timesheet"}}
    /\ IF "Add Timesheet" \in buttons'
       THEN pc' = "FinalCheck" /\ UNCHANGED error
       ELSE Throw(SelectorTimeoutMsg)
    /\ UNCHANGED <<callee, maxRetries, attempt, lastError, thrown, navCount,
                   retries, url, loadingAttempt, waitVars>>
    /\ UNCHANGED emailInput
    /\ UNCHANGED nonGotoVars

\* the final waitForSelector('button[data-id="Timesheet Add Timesheet"]'), return
TS_FinalCheck ==
    /\ pc = "FinalCheck"
    /\ buttons' \in {buttons, buttons \ {"Add Timesheet"}}
    /\ IF "Add Timesheet" \in buttons'
       THEN pc' = "Done" /\ UNCHANGED error
       ELSE Throw(SelectorTimeoutMsg)
    /\ UNCHANGED <<callee, maxRetries, attempt, lastError, thrown, navCount,
                   retries, url, loading, loadingAttempt, managerActive, emailInput, waitVars>>
    /\ UNCHANGED nonGotoVars

\* catch (error) of TimesheetPage.goto
TS_Catch ==
    /\ pc = "Catch" /\ callee = "TimesheetPage"
    /\ lastError' = error
    /\ error' = Undefined
    /\ failLog' = Append(failLog, FailureClass(error))
    /\ waited' = 0
    /\ IF IsAuthenticationError(error)
       THEN pc' = "Thrown" /\ thrown' = error /\ UNCHANGED attempt
       ELSE IF IsPermissionError(error)
       THEN pc' = "Thrown" /\ thrown' = error /\ UNCHANGED attempt
       ELSE IF IsLastAttempt(attempt, maxRetries)
       THEN /\ pc' = "Thrown"
            /\ thrown' = TimesheetExhaustedMsg(maxRetries, error)
            /\ UNCHANGED attempt
       ELSE Continue /\ UNCHANGED thrown
    /\ UNCHANGED <<callee, maxRetries, navCount, retries, pageVars,
                   lastFailConn, gaps>>
    /\ UNCHANGED nonGotoVars

\* throw lastError || new Error('Failed to load timesheet page')
TS_AfterLoop ==
    /\ pc = "AfterLoop" /\ callee = "TimesheetPage"
    /\ pc' = "Thrown"
    /\ thrown' = IF lastError # Undefined THEN lastError ELSE DefaultFailMsg
    /\ UNCHANGED <<callee, maxRetries, attempt, error, lastError, navCount,
                   retries, pageVars, waitVars>>
    /\ UNCHANGED nonGotoVars

----------------------------------------------------------------------------
(* LoginPage.goto with retry *)

\* await this.page.goto('/auth/login', ...); waitForTimeout(1000)
LG_Navigate ==
    /\ pc = "Navigate" /\ callee = "LoginPage"
    /\ navCount' = navCount + 1
    /\ gaps' = GapsAtNavigate
    /\ emailInput' = "unknown"
    /\ \/ /\ \E e \in NavErrors : Throw(e)
          /\ UNCHANGED url
       \/ /\ \E u \in LandingUrls : url' = u
          /\ pc' = "CheckUrl"
          /\ UNCHANGED error
    /\ UNCHANGED <<callee, maxRetries, attempt, lastError, thrown, retries,
                   loading, loadingAttempt, buttons, managerActive, waited,
                   lastFailConn, failLog>>
    /\ UNCHANGED nonGotoVars

\* a redirect away from the login page treated as a failed attempt
LG_CheckUrlStrict ==
    /\ pc = "CheckUrl"
    /\ IF Includes(url, <<"/auth/login">>)
       THEN \E serviceError \in BOOLEAN :
              IF serviceError
              THEN Throw(ServiceErrorMsg)
              ELSE pc' = "EmailInput" /\ UNCHANGED error
       ELSE Throw(UrlMismatchMsg)
    /\ UNCHANGED <<callee, maxRetries, attempt, lastError, thrown, navCount,
                   retries, pageVars, waitVars>>
    /\ UNCHANGED nonGotoVars

\* if (currentUrl.includes('/auth/login')) { service error check ... } else return
LG_CheckUrl ==
    /\ pc = "CheckUrl"
    /\ IF Includes(url, <<"/auth/login">>)
       THEN \E serviceError \in BOOLEAN :
              IF serviceError
              THEN Throw(ServiceErrorMsg)
              ELSE pc' = "EmailInput" /\ UNCHANGED error
       ELSE pc' = "Done" /\ UNCHANGED error
    /\ UNCHANGED <<callee, maxRetries, attempt, lastError, thrown, navCount,
                   retries, pageVars, waitVars>>
    /\ UNCHANGED nonGotoVars

\* what waitFor({state: 'visible'}) and isEnabled() can find of the email input
EmailInputStates == {"hidden", "disabled", "enabled"}

\* the enabled check left out
IsEnabledAlways(state) == TRUE

\* await emailInput.isEnabled().catch(() => false)
IsEnabled(state) == state = "enabled"

\* emailInput.waitFor({state: 'visible'}), emailInput.isEnabled()
LG_EmailInput ==
    /\ pc = "EmailInput"
    /\ \E state \in EmailInputStates :
         /\ emailInput' = state
         /\ IF state = "hidden" THEN Throw(WaitForTimeoutMsg)
            ELSE IF ~IsEnabled(state) THEN Throw(NotEnabledMsg)
            ELSE pc' = "DoubleCheck" /\ UNCHANGED error
    /\ UNCHANGED <<callee, maxRetries, attempt, lastError, thrown, navCount,
                   retries, url, loading, loadingAttempt, buttons,
                   managerActive, waitVars>>
    /\ UNCHANGED nonGotoVars

\* the network wait, then the second service error check, then return
LG_DoubleCheck ==
    /\ pc = "DoubleCheck"
    /\ \E stillHasError \in BOOLEAN :
         IF stillHasError
         THEN Throw(ServiceStillMsg)
         ELSE pc' = "Done" /\ UNCHANGED error
    /\ UNCHANGED <<callee, maxRetries, attempt, lastError, thrown, navCount,
                   retries, pageVars, waitVars>>
    /\ UNCHANGED nonGotoVars

\* catch (error) of LoginPage.goto
LG_Catch ==
    /\ pc = "Catch" /\ callee = "LoginPage"
    /\ lastError' = error
    /\ error' = Undefined
    /\ failLog' = Append(failLog, FailureClass(error))
    /\ lastFailConn' = IsConnectionError(error)
    /\ IF IsConnectionError(error) /\ HasAttemptsLeft(attempt, maxRetries)
       THEN /\ waited' = ConnectionRetryDelayMs(attempt)
            /\ Continue
            /\ UNCHANGED thrown
       ELSE IF HasAttemptsLeft(attempt, maxRetries)
       THEN /\ waited' = 0
            /\ Continue
            /\ UNCHANGED thrown
       ELSE /\ waited' = 0
            /\ pc' = "Thrown"
            /\ thrown' = IF IsConnectionError(error)
                         THEN LoginConnExhaustedMsg(error)
                         ELSE LoginExhaustedMsg(maxRetries, error)
            /\ UNCHANGED attempt
    /\ UNCHANGED <<callee, maxRetries, navCount, retries, pageVars, gaps>>
    /\ UNCHANGED nonGotoVars

\* if (lastError) throw lastError; otherwise the method ends
LG_AfterLoop ==
    /\ pc = "AfterLoop" /\ callee = "LoginPage"
    /\ IF lastError # Undefined
       THEN pc' = "Thrown" /\ thrown' = lastError
       ELSE pc' = "Done" /\ UNCHANGED thrown
    /\ UNCHANGED <<callee, maxRetries, attempt, error, lastError, navCount,
                   retries, pageVars, waitVars>>
    /\ UNCHANGED nonGotoVars

Next ==
    \/ Call
    \/ LoopHead
    \/ RetryDelay
    \/ TS_Navigate
    \/ TS_CheckAuth
    \/ TS_VerifyUrl
    \/ TS_LoadingPoll
    \/ TS_WaitButtons
    \/ TS_Diagnose
    \/ TS_ButtonsAgain
    \/ TS_EnsureMyView
    \/ TS_FinalCheck
    \/ TS_Catch
    \/ TS_AfterLoop
    \/ LG_Navigate
    \/ LG_CheckUrl
    \/ LG_EmailInput
    \/ LG_DoubleCheck
    \/ LG_Catch
    \/ LG_AfterLoop

Spec == Init /\ [][Next]_vars

\* every await of goto settles: a started call keeps taking steps
FairSpec == Spec /\ WF_vars(Next)

TypeOK ==
    /\ callee \in {"TimesheetPage", "LoginPage"}
    /\ maxRetries \in 0..(MaxRetriesBound + 1)
    /\ attempt \in 0..(MaxRetriesBound + 2)
    /\ navCount \in Nat
    /\ emailInput \in EmailInputStates \cup {"unknown"}
    /\ buttons \subseteq AllButtons

----------------------------------------------------------------------------
(* Properties of the two goto methods (specifications Spec and FairSpec) *)

DefaultMaxRetries == 3

\* positions inside the try block of one attempt
AttemptPcs ==
    {"Navigate", "CheckAuth", "VerifyUrl", "LoadingPoll", "WaitButtons",
     "Diagnose", "ButtonsAgain", "EnsureMyView", "FinalCheck", "CheckUrl",
     "EmailInput", "DoubleCheck"}

\* a step in which the running attempt fails, or its failure is classified
AttemptFails ==
    \/ pc \in AttemptPcs /\ pc' \notin (AttemptPcs \cup {"Done"})
    \/ pc = "Catch"

\* C1: for every retry bound N >= 1, a goto call makes at most N page
\* navigations, and a failure of the N-th attempt ends in a throw: it never
\* leads back to the loop for another attempt.
C1_AtMostNAttempts ==
    [][maxRetries >= 1 =>
         /\ navCount' <= maxRetries
         /\ (attempt = maxRetries - 1 /\ AttemptFails) =>
                \/ pc' = "Thrown"
                \/ pc' = "Catch" /\ attempt' = attempt]_vars

C1_Witness ==
    /\ maxRetries = DefaultMaxRetries
    /\ navCount = maxRetries
    /\ Len(failLog) = maxRetries
    /\ pc = "Thrown"

\* the state machine of one navigation
Phase ==
    CASE pc = "Idle" -> "Idle"
      [] pc = "Done" -> "Ready"
      [] pc = "Thrown" -> "Fatal"
      [] pc = "Delay" -> "Retrying"
      [] pc = "AfterLoop" -> "Retrying"
      [] pc = "LoopHead" /\ attempt > 0 -> "Retrying"
      [] OTHER -> "Attempting"

PhaseTransitions ==
    { <<"Idle", "Attempting">>, <<"Attempting", "Ready">>,
      <<"Attempting", "Retrying">>, <<"Attempting", "Fatal">>,
      <<"Retrying", "Attempting">> }

\* C2: with N >= 1 and every wait and navigation finishing, a goto call
\* follows Idle -> Attempting -> {Ready, Retrying, Fatal}, goes from Retrying
\* back to Attempting at most N-1 times, reaches Ready or Fatal, and takes no
\* step after that.
C2_TerminatesOnce ==
    /\ [][maxRetries >= 1 =>
            /\ Phase' = Phase \/ <<Phase, Phase'>> \in PhaseTransitions
            /\ Phase \notin {"Ready", "Fatal"}]_vars
    /\ [](maxRetries >= 1 => retries <= maxRetries - 1)
    /\ <>(maxRetries = 0 \/ Phase \in {"Ready", "Fatal"})

C2_Witness ==
    /\ maxRetries = DefaultMaxRetries
    /\ retries = maxRetries - 1
    /\ Phase = "Ready"

\* C3: in TimesheetPage.goto an attempt that lands on a URL containing
\* /auth/login only leads to the 'Authentication failed' error being thrown
\* out of goto: no delay, loop step or navigation follows that attempt.
C3_AuthFailureImmediate ==
    (callee = "TimesheetPage" /\ Includes(url, <<"/auth/login">>)) =>
        \/ pc = "CheckAuth"
        \/ pc = "Catch" /\ error = AuthFailedMsg
        \/ pc = "Thrown" /\ thrown = AuthFailedMsg /\ navCount = attempt + 1

C3_Witness ==
    /\ callee = "TimesheetPage"
    /\ maxRetries = DefaultMaxRetries
    /\ attempt = 1
    /\ pc = "Thrown"
    /\ thrown = AuthFailedMsg

\* C4 (as claimed): whenever TimesheetPage.goto throws the permission error
\* ('User might not have permission to view timesheet'), it has made exactly
\* one navigation attempt.
C4_PermissionOneAttempt ==
    (callee = "TimesheetPage" /\ pc = "Thrown" /\ IsPermissionError(thrown)) =>
        navCount = 1

\* C5 (as claimed): TimesheetPage.goto does not return success while the
\* 'Loading timesheet data' indicator is visible.
C5_NotReadyWhileLoading ==
    (callee = "TimesheetPage" /\ pc = "Done") => ~loading

\* C9: when the first two attempts of LoginPage.goto(3) fail with a
\* connection-refused error, the call does not give up: it makes a third
\* navigation, and if that attempt succeeds goto returns after exactly 3
\* navigations.
C9_ThirdAttemptSucceeds ==
    (/\ callee = "LoginPage"
     /\ maxRetries = DefaultMaxRetries
     /\ failLog = <<"refused", "refused">>) =>
        /\ pc # "Thrown"
        /\ navCount \in {2, 3}
        /\ pc \in (AttemptPcs \ {"Navigate"}) \cup {"Done"} => navCount = 3

C9_Witness ==
    /\ callee = "LoginPage"
    /\ maxRetries = DefaultMaxRetries
    /\ failLog = <<"refused", "refused">>
    /\ navCount = 3
    /\ Includes(url, <<"/auth/login">>)
    /\ pc = "Done"

\* C10 (as claimed): in LoginPage.goto the time waited between a
\* connection-class failure of attempt k and the start of attempt k+1 is
\* k * 5000 ms.
C10_ConnectionBackoff ==
    callee = "LoginPage" =>
        \A i \in DOMAIN gaps :
            gaps[i].conn => gaps[i].ms = gaps[i].after * 5000

\* the text `${maxRetries} attempts` of the two exhaustion messages
ContainsAttemptCount(msg, n) ==
    \/ Includes(msg, NumStr(n) \o <<" attempts. ">>)
    \/ Includes(msg, NumStr(n) \o <<" attempts: ">>)

\* every one of the N >= 1 attempts of the call failed and the call threw
AllAttemptsFailed ==
    /\ maxRetries >= 1
    /\ Len(failLog) = maxRetries
    /\ pc = "Thrown"

\* the final failures whose thrown error carries no attempt count: the
\* connection-class error of LoginPage.goto, and the authentication and
\* permission errors that TimesheetPage.goto rethrows as they are
CountOmitted ==
    \/ callee = "LoginPage" /\ IsConnectionError(lastError)
    \/ callee = "TimesheetPage" /\ IsAuthenticationError(lastError)
    \/ callee = "TimesheetPage" /\ IsPermissionError(lastError)

C13_DisabledInputIsFatal ==
    (callee = "LoginPage" /\ lastError = NotEnabledMsg) =>
        pc = "Thrown" /\ navCount = Len(failLog)

\* C13 (amended): a failure of LoginPage.goto on an email input that is
\* visible but not enabled is handled like every other failure that is not
\* connection-class: while attempts remain it is retried without the
\* connection back-off, and on the last attempt goto throws 'Failed to
\* navigate to login page after N attempts: ' followed by its message.
C13_DisabledInputRetried ==
    [][(callee = "LoginPage" /\ pc = "Catch" /\ error = NotEnabledMsg) =>
          IF attempt < maxRetries - 1
          THEN /\ pc' = "LoopHead"
               /\ attempt' = attempt + 1
               /\ waited' = 0
               /\ thrown' = Undefined
          ELSE /\ pc' = "Thrown"
               /\ thrown' = LoginExhaustedMsg(maxRetries, NotEnabledMsg)]_vars

\* the second navigation after an attempt that found the input disabled
C13_Witness ==
    /\ callee = "LoginPage"
    /\ failLog = <<"other">>
    /\ lastError = NotEnabledMsg
    /\ navCount = 2
    /\ pc = "CheckUrl"

\* C14: when a navigation of LoginPage.goto lands on a URL that does not
\* contain /auth/login, whichever it is, the next step of goto is the
\* successful return of that same attempt: nothing is thrown and no further
\* navigation is made.
C14_RedirectIsSuccess ==
    /\ [][(/\ callee = "LoginPage"
           /\ pc = "CheckUrl"
           /\ ~Includes(url, <<"/auth/login">>)) =>
              /\ pc' = "Done"
              /\ url' = url /\ attempt' = attempt /\ navCount' = navCount
              /\ thrown' = Undefined /\ error' = Undefined]_vars
    /\ []((/\ callee = "LoginPage"
           /\ url \in LandingUrls
           /\ ~Includes(url, <<"/auth/login">>)) => pc \in {"CheckUrl", "Done"})

C14_Witness ==
    /\ callee = "LoginPage"
    /\ url = TimesheetUrl
    /\ navCount = 2
    /\ pc = "Done"

\* C15: TimesheetPage.goto returns success only from an attempt whose own
\* navigation left the page on a URL that is not the login route and matches
\* /dashboard/timesheet, on which at least one timesheet button appeared and
\* on which the final check found the Add Timesheet button.
C15_SuccessCriteria ==
    (callee = "TimesheetPage" /\ pc = "Done") =>
        /\ navCount = attempt + 1
        /\ ~Includes(url, <<"/auth/login">>)
        /\ Includes(url, <<"/dashboard/timesheet">>)
        /\ buttons # {}
        /\ "Add Timesheet" \in buttons

\* success in the second attempt, after a first one that found no button
C15_Witness ==
    /\ callee = "TimesheetPage"
    /\ pc = "Done"
    /\ attempt = 1
    /\ lastError = ButtonsRetryMsg
    /\ url = TimesheetUrl
    /\ buttons = {"Add Timesheet"}

\* the waits goto inserted before its retries, in order
RetryWaits == [k \in DOMAIN gaps |-> gaps[k].ms]

\* C21 (as claimed): a call of TimesheetPage.goto() with the default bound
\* that uses up all its attempts has waited 2 s, 4 s and 6 s before its
\* retries.
C21_BackoffSchedule ==
    (/\ callee = "TimesheetPage"
     /\ maxRetries = DefaultMaxRetries
     /\ navCount = maxRetries
     /\ pc \in {"Done", "Thrown"}) =>
        RetryWaits = <<2000, 4000, 6000>>

\* C26 (as claimed): a goto call that returned normally made at least one
\* navigation, for every maxRetries; with a bound that allows no attempt
\* both TimesheetPage.goto and the retrying LoginPage.goto end by throwing.
C26_NoSuccessWithoutAttempt ==
    /\ pc = "Done" => navCount >= 1
    /\ (maxRetries = 0 /\ pc \in {"Done", "Thrown"}) => pc = "Thrown"

\* the failures of an attempt that found an empty page, a page still loading
\* after the extended wait, or no timesheet button
RenderFailures ==
    {EmptyRetryMsg, EmptyMsg, StillLoadingRetryMsg, StillLoadingMsg,
     ButtonsRetryMsg, TookTooLongMsg, ContentRetryMsg}
        \cup {PermissionMsg(b.length) : b \in Bodies}

\* C22: in TimesheetPage.goto a failure on an empty page, on a page still
\* loading after the extended wait, or on missing timesheet buttons goes back
\* to the loop for the next attempt whenever attempts remain; when the call
\* has thrown after such a failure, it had made all maxRetries navigations.
C22_RenderFailuresRetried ==
    /\ []((/\ callee = "TimesheetPage"
           /\ maxRetries >= 1
           /\ lastError \in RenderFailures
           /\ pc = "Thrown") => navCount = maxRetries)
    /\ [][(/\ callee = "TimesheetPage"
           /\ pc = "Catch"
           /\ error \in RenderFailures
           /\ attempt < maxRetries - 1) =>
              pc' = "LoopHead" /\ attempt' = attempt + 1]_vars
    /\ [][(/\ callee = "TimesheetPage"
           /\ pc \in {"Diagnose", "ButtonsAgain"}
           /\ attempt < maxRetries - 1) =>
              \/ pc' \in {"Diagnose", "ButtonsAgain", "EnsureMyView"}
              \/ pc' = "LoopHead" /\ attempt' = attempt + 1
              \/ pc' = "Catch" /\ error' \in {ButtonsRetryMsg, PageErrorMsg}]_vars

\* the third navigation, after an empty page and a page without buttons
C22_Witness ==
    /\ callee = "TimesheetPage"
    /\ maxRetries = DefaultMaxRetries
    /\ failLog = <<"other", "other">>
    /\ lastError = ContentRetryMsg
    /\ navCount = 3
    /\ pc = "CheckAuth"

----------------------------------------------------------------------------
(* waitForToast (tests/timesheet-validations.spec.js) *)

InitToast ==
    /\ tpc = "Idle"
    /\ titleText \in TitlePatterns
    /\ descriptionText \in DescriptionPatterns
    /\ container \in Containers
    /\ pageRest \in PageRestTexts
    /\ toastText = <<>>
    /\ tWarned = FALSE
    /\ tError = "none"

TW_Throw(kind) ==
    /\ tpc' = "Thrown"
    /\ tError' = kind

\* waitForTimeout(1000), then the selector loop: a container counts as found
\* when the first element of some selector is visible
TW_FindContainer ==
    /\ tpc = "Idle"
    /\ container' \in ContainerAfterWait(container)
    /\ tpc' = IF container'.visible THEN "ReadText" ELSE "PageSearch"
    /\ UNCHANGED <<titleText, descriptionText, pageRest, toastText, tWarned, tError>>
    /\ UNCHANGED nonToastVars

\* expect(toast).toBeVisible(), waitForTimeout(1000), toast.textContent(),
\* with one more read after 1 s when the text is empty
TW_ReadText ==
    /\ tpc = "ReadText"
    /\ container' \in ContainerAfterWait(container)
    /\ IF ~container'.visible
       THEN TW_Throw("ToastNotVisible") /\ UNCHANGED toastText
       ELSE IF container'.text = <<>>
       THEN TW_Throw("EmptyText") /\ UNCHANGED toastText
       ELSE /\ toastText' = container'.text
            /\ tpc' = "CheckDescription"
            /\ UNCHANGED tError
    /\ UNCHANGED <<titleText, descriptionText, pageRest, tWarned>>
    /\ UNCHANGED nonToastVars

\* a description mismatch in the container falling back to the page search
TW_CheckDescriptionFallback ==
    /\ tpc = "CheckDescription"
    /\ IF descriptionText.given /\ ~RegExpTest(descriptionText, toastText)
       THEN tpc' = "PageSearch" /\ UNCHANGED tError
       ELSE tpc' = "CheckTitle" /\ UNCHANGED tError
    /\ UNCHANGED <<titleText, descriptionText, container, pageRest, toastText, tWarned>>
    /\ UNCHANGED nonToastVars

\* if (descriptionText) { const descPattern = ...; if (!descPattern.test(toastText)) throw }
TW_CheckDescription ==
    /\ tpc = "CheckDescription"
    /\ IF descriptionText.given /\ ~RegExpTest(descriptionText, toastText)
       THEN TW_Throw("DescriptionNotFound")
       ELSE tpc' = "CheckTitle" /\ UNCHANGED tError
    /\ UNCHANGED <<titleText, descriptionText, container, pageRest, toastText, tWarned>>
    /\ UNCHANGED nonToastVars

\* if (titleText) { if (!titlePattern.test(toastText)) { console.warn(...);
\*   if (!descriptionText || !descPattern.test(toastText)) throw ... } }
\* descPattern is a const of the block of the description check: here it is
\* not in scope, so evaluating it throws a ReferenceError
TW_CheckTitle ==
    /\ tpc = "CheckTitle"
    /\ IF titleText.given /\ ~RegExpTest(titleText, toastText)
       THEN /\ tWarned' = TRUE
            /\ IF ~descriptionText.given
               THEN TW_Throw("TitleNotFound")
               ELSE TW_Throw("ReferenceError")
       ELSE /\ tpc' = "Verify"
            /\ UNCHANGED <<tWarned, tError>>
    /\ UNCHANGED <<titleText, descriptionText, container, pageRest, toastText>>
    /\ UNCHANGED nonToastVars

\* expect(toast).toContainText(descriptionText), or toContainText(titleText)
\* when only a title was given; return toast
TW_Verify ==
    /\ tpc = "Verify"
    /\ container' \in ContainerAfterWait(container)
    /\ LET expected == IF descriptionText.given THEN descriptionText ELSE titleText
       IN  IF expected.given
              /\ ~(container'.visible /\ RegExpTest(expected, container'.text))
           THEN TW_Throw("ToContainText")
           ELSE tpc' = "Returned" /\ UNCHANGED tError
    /\ UNCHANGED <<titleText, descriptionText, pageRest, toastText, tWarned>>
    /\ UNCHANGED nonToastVars

\* Strategy 3: no container found, search the page for the text
TW_PageSearch ==
    /\ tpc = "PageSearch"
    /\ LET textToFind == IF descriptionText.given THEN descriptionText ELSE titleText
           bodyText == BodyText(pageRest, container)
       IN  IF ~textToFind.given
           THEN TW_Throw("NothingToFind")
           ELSE IF RegExpTest(textToFind, bodyText)
           THEN tpc' = "Returned" /\ UNCHANGED tError
           ELSE TW_Throw("MessageNotFound")
    /\ UNCHANGED <<titleText, descriptionText, container, pageRest, toastText, tWarned>>
    /\ UNCHANGED nonToastVars

\* no goto call is in progress
GotoIdle ==
    /\ callee = "TimesheetPage"
    /\ maxRetries = DefaultMaxRetries
    /\ attempt = 0
    /\ pc = "Idle"
    /\ error = Undefined
    /\ lastError = Undefined
    /\ thrown = Undefined
    /\ navCount = 0
    /\ retries = 0
    /\ url = BlankUrl
    /\ loading = FALSE
    /\ loadingAttempt = 0
    /\ buttons = {}
    /\ managerActive = FALSE
    /\ emailInput = "unknown"
    /\ waited = 0
    /\ lastFailConn = FALSE
    /\ gaps = <<>>
    /\ failLog = <<>>

ToastInit == CreateIdle /\ BatchIdle /\ GotoIdle /\ LoginIdle /\ SeqIdle /\ BulkIdle /\ InitToast

ToastNext ==
    \/ TW_FindContainer
    \/ TW_ReadText
    \/ TW_CheckDescription
    \/ TW_CheckTitle
    \/ TW_Verify
    \/ TW_PageSearch

SpecToast == ToastInit /\ [][ToastNext]_vars

\* C6 (as claimed): when a container is found, a description pattern is
\* given and matches the container text, and the title pattern does not
\* match, waitForToast only warns: it throws no error.
C6_TitleMismatchIsSoft ==
    (/\ titleText.given /\ descriptionText.given
     /\ toastText # <<>>
     /\ RegExpTest(descriptionText, toastText)
     /\ ~RegExpTest(titleText, toastText)) =>
        tpc # "Thrown"

ExpectedText == IF descriptionText.given THEN descriptionText ELSE titleText

\* C16: waitForToast starts the search of the rest of the page only straight
\* from a container search that found no visible container; once it has read
\* a container's text it returns only if the pattern it looks for occurs in
\* that text, and none of the page search's errors is thrown.
C16_ContainerDecides ==
    /\ [][tpc' = "PageSearch" => tpc = "Idle" /\ ~container'.visible]_vars
    /\ []((tpc = "Returned" /\ toastText # <<>> /\ ExpectedText.given) =>
              RegExpTest(ExpectedText, toastText))
    /\ [](toastText # <<>> => tError \notin {"NothingToFind", "MessageNotFound"})

\* the pattern occurs on the page outside the found container only: thrown
C16_Witness ==
    /\ tpc = "Thrown"
    /\ tError = "DescriptionNotFound"
    /\ toastText = CredentialsText
    /\ descriptionText = PleaseSelectProject
    /\ RegExpTest(descriptionText, pageRest)

\* the text waitForToast read from the container matches every pattern it
\* was given
ReadTextMatches ==
    /\ toastText # <<>>
    /\ descriptionText.given => RegExpTest(descriptionText, toastText)
    /\ titleText.given => RegExpTest(titleText, toastText)

\* C29 (as claimed): once waitForToast has read the container's text and the
\* text matches the patterns, the call does not fail, also when the toast
\* disappears right after the read.
C29_ReadDecides ==
    ReadTextMatches => tpc # "Thrown"
----------------------------------------------------------------------------
(* LoginPage.getErrorMessage and LoginPage.waitForLoginSuccess *)

Null == <<>>

\* an element of the login page: its role and class attributes, whether it
\* is visible, and its text
InvalidAlert ==
    [role |-> "alert", class |-> "toast", visible |-> TRUE,
     text |-> <<" ", "Invalid", "email", "or", "password", " ">>]
PleaseAlert ==
    [role |-> "alert", class |-> "toast", visible |-> TRUE,
     text |-> <<"Error", ":", "Please", "check", "your", "password">>]
HiddenAlert ==
    [role |-> "alert", class |-> "toast", visible |-> FALSE,
     text |-> <<"Login", "Failed">>]
DeniedBox ==
    [role |-> "none", class |-> "error-box", visible |-> TRUE,
     text |-> <<"Access", "denied">>]
InstructionBox ==
    [role |-> "none", class |-> "instruction", visible |-> TRUE,
     text |-> CredentialsText]

ErrorElements == {InvalidAlert, PleaseAlert, HiddenAlert, DeniedBox}
InitialElements == {<<>>, <<InstructionBox>>}

\* case-insensitive search of one of the words (or word sequences) in the text
AnyWord(words, text) ==
    \E w \in words : Includes(LowerAll(text), LowerAll(w))

\* /Invalid|Error|Failed|incorrect|wrong|denied|unauthorized|forbidden|
\*  credentials.*invalid|password.*incorrect/i  (the last two alternatives only
\* match texts the first ones already match)
ErrorKeywords ==
    {<<"invalid">>, <<"error">>, <<"failed">>, <<"incorrect">>, <<"wrong">>,
     <<"denied">>, <<"unauthorized">>, <<"forbidden">>}

\* const excludeText = /Enter your credentials|access your account|Please|Welcome|Sign In/i
ExcludeText ==
    {<<"enter", "your", "credentials">>, <<"access", "your", "account">>,
     <<"please">>, <<"Welcome">>, <<"Sign", "In">>}

\* String.prototype.trim
RECURSIVE Trim(_)
Trim(t) ==
    IF t = <<>> THEN t
    ELSE IF Head(t) = " " THEN Trim(Tail(t))
    ELSE IF t[Len(t)] = " " THEN Trim(SubSeq(t, 1, Len(t) - 1))
    ELSE t

\* the four errorSelectors of getErrorMessage, in order
ErrorSelectors == <<"role=alert", "class*=error", "class*=alert", "text=keywords">>

SelectorMatches(sel, e) ==
    CASE sel = "role=alert" -> e.role = "alert"
      [] sel = "class*=error" -> e.class = "error-box"
      [] sel = "class*=alert" -> e.class = "alert-box"
      [] OTHER -> AnyWord(ErrorKeywords, e.text)

\* page.locator(selector).filter({hasText: ...}): positions in document order
Located(sel, els) ==
    {k \in DOMAIN els : SelectorMatches(sel, els[k]) /\ AnyWord(ErrorKeywords, els[k].text)}

Min(S) == CHOOSE k \in S : \A m \in S : k <= m

\* the selector loop without the excludeText test
SelectorResultNoExclude(sel, els) ==
    IF Located(sel, els) = {} THEN Null
    ELSE LET first == els[Min(Located(sel, els))]
         IN  IF first.visible /\ Trim(first.text) # <<>>
             THEN Trim(first.text)
             ELSE Null

\* one iteration of the selector loop: the text to return, or Null
SelectorResult(sel, els) ==
    IF Located(sel, els) = {} THEN Null
    ELSE LET first == els[Min(Located(sel, els))]
         IN  IF first.visible /\ Trim(first.text) # <<>>
                /\ ~AnyWord(ExcludeText, first.text)
             THEN Trim(first.text)
             ELSE Null

RECURSIVE FirstResult(_, _)
FirstResult(k, els) ==
    IF k > Len(ErrorSelectors) THEN Null
    ELSE IF SelectorResult(ErrorSelectors[k], els) # Null
    THEN SelectorResult(ErrorSelectors[k], els)
    ELSE FirstResult(k + 1, els)

\* getErrorMessage of the LoginPage with retry logic
GetErrorMessageRetrying(els) == FirstResult(1, els)

\* getErrorMessage of pages/LoginPage.js: locator('alert, [role="alert"]')
\* filtered by /Invalid|Error|Failed/i
GetErrorMessagePlain(els) ==
    LET located == {k \in DOMAIN els :
                      /\ els[k].role = "alert"
                      /\ AnyWord({<<"invalid">>, <<"error">>, <<"failed">>}, els[k].text)}
    IN  IF located # {} /\ els[Min(located)].visible
        THEN els[Min(located)].text
        ELSE Null

GetErrorMessage(v, els) ==
    IF v = "pages/LoginPage.js" THEN GetErrorMessagePlain(els)
    ELSE GetErrorMessageRetrying(els)

\* the glob `**${expectedUrl}`: the URL ends with expectedUrl
UrlMatches(u, expected) == u[Len(u)] = expected

LoginFailedMsg(msg) == <<"Login failed: ">> \o msg
\* the timeout message without the current URL
NoRedirectMsgNoUrl(expected, current) ==
    <<"Login did not redirect to ", expected, " within timeout.">>

NoRedirectMsg(expected, current) ==
    <<"Login did not redirect to ", expected, " within timeout. Current URL: ">>
        \o current

InitLogin ==
    /\ wpc = "Idle"
    /\ variant \in {"pages/LoginPage.js", "LoginPage with retry"}
    /\ expectedUrl \in {"/dashboard/welcome", "/dashboard/timesheet"}
    /\ wUrl = LoginUrl
    /\ elements \in InitialElements
    /\ firstEvent = "none"
    /\ wError = Undefined

\* waitForLoginSuccess(expectedUrl) is called: page.waitForURL starts
WL_Call ==
    /\ wpc = "Idle"
    /\ wpc' = "Waiting"
    /\ UNCHANGED <<variant, expectedUrl, wUrl, elements, firstEvent, wError>>
    /\ UNCHANGED nonLoginVars

\* the application shows an error element while waitForURL is pending
WL_ErrorAppears ==
    /\ wpc = "Waiting"
    /\ Len(elements) < MaxElements
    /\ \E e \in ErrorElements : elements' = Append(elements, e)
    /\ firstEvent' = IF firstEvent = "none" THEN "error" ELSE firstEvent
    /\ UNCHANGED <<wpc, variant, expectedUrl, wUrl, wError>>
    /\ UNCHANGED nonLoginVars

\* the application removes the element it showed last
WL_ErrorDismissed ==
    /\ wpc = "Waiting"
    /\ elements # <<>>
    /\ elements[Len(elements)] \in ErrorElements
    /\ elements' = SubSeq(elements, 1, Len(elements) - 1)
    /\ UNCHANGED <<wpc, variant, expectedUrl, wUrl, firstEvent, wError>>
    /\ UNCHANGED nonLoginVars

\* the browser reaches a URL: waitForURL resolves when it matches the glob
WL_UrlChanges ==
    /\ wpc = "Waiting"
    /\ \E u \in {WelcomeUrl, TimesheetUrl} \ {wUrl} :
         /\ wUrl' = u
         /\ IF UrlMatches(u, expectedUrl)
            THEN /\ wpc' = "Returned"
                 /\ firstEvent' = IF firstEvent = "none" THEN "route" ELSE firstEvent
            ELSE UNCHANGED <<wpc, firstEvent>>
    /\ UNCHANGED <<variant, expectedUrl, elements, wError>>
    /\ UNCHANGED nonLoginVars

\* waitForURL times out after 10 s: the catch clause
WL_Timeout ==
    /\ wpc = "Waiting"
    /\ LET errorMessage == GetErrorMessage(variant, elements)
       IN  wError' = IF errorMessage # Null
                     THEN LoginFailedMsg(errorMessage)
                     ELSE NoRedirectMsg(expectedUrl, wUrl)
    /\ wpc' = "Thrown"
    /\ UNCHANGED <<variant, expectedUrl, wUrl, elements, firstEvent>>
    /\ UNCHANGED nonLoginVars

LoginInit == CreateIdle /\ BatchIdle /\ GotoIdle /\ ToastIdle /\ SeqIdle /\ BulkIdle /\ InitLogin

LoginNext ==
    \/ WL_Call
    \/ WL_ErrorAppears
    \/ WL_ErrorDismissed
    \/ WL_UrlChanges
    \/ WL_Timeout

SpecLogin == LoginInit /\ [][LoginNext]_vars

\* C8 (as claimed): whichever of the two events occurs first decides: an
\* error notification before the expected route makes the call fail with
\* that login error, the expected route first makes the call succeed.
C8_FirstEventDecides ==
    (wpc \in {"Returned", "Thrown"}) =>
        /\ firstEvent = "error" =>
              wpc = "Thrown" /\ Includes(wError, <<"Login failed: ">>)
        /\ firstEvent = "route" => wpc = "Returned"

\* the value getErrorMessage returned to the catch clause of
\* waitForLoginSuccess, read back from `Login failed: ${errorMessage}`
ReturnedMessage ==
    IF wError # Undefined /\ Head(wError) = "Login failed: "
    THEN Tail(wError)
    ELSE Null

\* every visible element with an error keyword carries instruction text
OnlyInstructional(els) ==
    \A k \in DOMAIN els :
        (els[k].visible /\ AnyWord(ErrorKeywords, els[k].text)) =>
            AnyWord({<<"Enter", "your", "credentials">>,
                     <<"access", "your", "account">>, <<"Please">>,
                     <<"Welcome">>, <<"Sign", "In">>}, els[k].text)

\* C17: the text that getErrorMessage of the LoginPage with retry logic
\* returns never matches /Enter your credentials|access your account|Please|
\* Welcome|Sign In/i, and it returns null when every visible element with an
\* error keyword matches that pattern.
C17_NeverInstructionText ==
    (wpc = "Thrown" /\ variant = "LoginPage with retry") =>
        /\ ~AnyWord({<<"Enter", "your", "credentials">>,
                     <<"access", "your", "account">>, <<"Please">>,
                     <<"Welcome">>, <<"Sign", "In">>}, ReturnedMessage)
        /\ OnlyInstructional(elements) => ReturnedMessage = Null

\* the only alert on the page reads 'Error: Please check your password'
C17_Witness ==
    /\ wpc = "Thrown"
    /\ variant = "LoginPage with retry"
    /\ elements = <<InstructionBox, PleaseAlert>>
    /\ ReturnedMessage = Null
    /\ wError = NoRedirectMsg(expectedUrl, wUrl)

\* C18: when the wait of waitForLoginSuccess ends without the expected route
\* and getErrorMessage finds no error, the call throws an error whose message
\* contains the current URL; the call returns normally only on the expected
\* route.
C18_TimeoutNamesUrl ==
    /\ (wpc = "Thrown" /\ GetErrorMessage(variant, elements) = Null) =>
          /\ Includes(wError, <<" within timeout. Current URL: ">> \o wUrl)
          /\ Includes(wError, <<expectedUrl>>)
    /\ wpc = "Returned" => UrlMatches(wUrl, expectedUrl)
    /\ (wpc = "Waiting" /\ ~UrlMatches(wUrl, expectedUrl)) => wError = Undefined

\* timed out on another dashboard route than the expected one, no error shown
C18_Witness ==
    /\ wpc = "Thrown"
    /\ expectedUrl = "/dashboard/welcome"
    /\ wUrl = TimesheetUrl
    /\ elements = <<>>
    /\ wError = NoRedirectMsg(expectedUrl, TimesheetUrl)

\* the visible role="alert" elements whose text has an error keyword
VisibleErrorAlerts(els) ==
    {k \in DOMAIN els :
        /\ els[k].role = "alert"
        /\ els[k].visible
        /\ AnyWord(ErrorKeywords, els[k].text)}

\* C30 (as claimed): when a visible role="alert" element contains an error
\* keyword, getErrorMessage of the LoginPage with retry logic returns the
\* trimmed text of such an element and not null, also when the text contains
\* 'Please', 'Welcome' or 'Sign In'.
C30_AlertTextReturned ==
    (/\ wpc = "Thrown"
     /\ variant = "LoginPage with retry"
     /\ VisibleErrorAlerts(elements) # {}) =>
        /\ ReturnedMessage # Null
        /\ \E k \in VisibleErrorAlerts(elements) :
              ReturnedMessage = Trim(elements[k].text)

----------------------------------------------------------------------------
(* LoginPage.login: enterEmail, enterPassword, clickLogin (specification     *)
(* SpecSeq)                                                                  *)

\* the credentials the login tests use
Emails == {"saima@maxenpower.com", "invalid@example.com"}
Passwords == {"Maxen12345@", "wrongpassword"}

\* what a look at an input or at the button can find: in pages/LoginPage.js
\* page.fill and page.click either act or time out; the LoginPage with retry
\* logic waits for the element to be visible and expects it to be enabled
StepOutcomes(v) ==
    IF v = "pages/LoginPage.js" THEN {"ok", "timeout"}
    ELSE {"ok", "not visible", "not enabled"}

\* an await that goes on whatever the awaited call did
ProceedsAlways(outcome) == TRUE

\* `await step()`: login goes on only when the awaited call resolved
Proceeds(outcome) == outcome = "ok"

\* the form actions of login, in the order of its body
FormActions == <<"fill email", "fill password", "click submit">>

InitSeq ==
    /\ spc = "Idle"
    /\ sVariant \in {"pages/LoginPage.js", "LoginPage with retry"}
    /\ sEmail \in Emails
    /\ sPassword \in Passwords
    /\ sUrl \in {LoginUrl, WelcomeUrl}
    /\ fields \in {[email |-> "", password |-> ""],
                   [email |-> "old@example.com", password |-> ""]}
    /\ performed = <<>>
    /\ sGotos = 0
    /\ sError = <<>>

\* login(email, password) is called
SQ_Call ==
    /\ spc = "Idle"
    /\ spc' = "EnterEmail"
    /\ UNCHANGED <<sVariant, sEmail, sPassword, sUrl, fields, performed,
                   sGotos, sError>>
    /\ UNCHANGED nonSeqVars

\* the end of one awaited step: go on to `next`, or leave login by the throw
SQ_Await(step, outcome, next) ==
    IF Proceeds(outcome)
    THEN spc' = next /\ UNCHANGED sError
    ELSE spc' = "Thrown" /\ sError' = <<step, outcome>>

\* the email field is looked for and filled: clear(), fill(email)
SQ_FillEmail(outcomes) ==
    \E outcome \in outcomes :
        /\ SQ_Await("enterEmail", outcome, "EnterPassword")
        /\ IF outcome = "ok"
           THEN /\ fields' = [fields EXCEPT !.email = sEmail]
                /\ performed' = Append(performed, "fill email")
           ELSE UNCHANGED <<fields, performed>>

\* await this.enterEmail(email). The LoginPage with retry logic first calls
\* goto() when the page is not on /auth/login; goto may throw, land on the
\* login page, or accept a redirect, on which the email field never shows
SQ_EnterEmail ==
    /\ spc = "EnterEmail"
    /\ IF sVariant = "LoginPage with retry" /\ ~Includes(sUrl, <<"/auth/login">>)
       THEN /\ sGotos' = sGotos + 1
            /\ \/ /\ SQ_Await("goto", "throws", "EnterPassword")
                  /\ UNCHANGED <<sUrl, fields, performed>>
               \/ /\ sUrl' = LoginUrl
                  /\ SQ_FillEmail(StepOutcomes(sVariant))
               \/ /\ sUrl' = WelcomeUrl
                  /\ SQ_FillEmail({"not visible"})
       ELSE /\ UNCHANGED <<sGotos, sUrl>>
            /\ SQ_FillEmail(StepOutcomes(sVariant))
    /\ UNCHANGED <<sVariant, sEmail, sPassword>>
    /\ UNCHANGED nonSeqVars

\* await this.enterPassword(password)
SQ_EnterPassword ==
    /\ spc = "EnterPassword"
    /\ \E outcome \in StepOutcomes(sVariant) :
         /\ SQ_Await("enterPassword", outcome, "ClickLogin")
         /\ IF outcome = "ok"
            THEN /\ fields' = [fields EXCEPT !.password = sPassword]
                 /\ performed' = Append(performed, "fill password")
            ELSE UNCHANGED <<fields, performed>>
    /\ UNCHANGED <<sVariant, sEmail, sPassword, sUrl, sGotos>>
    /\ UNCHANGED nonSeqVars

\* await this.clickLogin(); login returns
SQ_ClickLogin ==
    /\ spc = "ClickLogin"
    /\ \E outcome \in StepOutcomes(sVariant) :
         /\ SQ_Await("clickLogin", outcome, "Done")
         /\ IF outcome = "ok"
            THEN performed' = Append(performed, "click submit")
            ELSE UNCHANGED performed
    /\ UNCHANGED <<sVariant, sEmail, sPassword, sUrl, fields, sGotos>>
    /\ UNCHANGED nonSeqVars

SeqInit == CreateIdle /\ BatchIdle /\ GotoIdle /\ ToastIdle /\ LoginIdle /\ BulkIdle /\ InitSeq

SeqNext ==
    \/ SQ_Call
    \/ SQ_EnterEmail
    \/ SQ_EnterPassword
    \/ SQ_ClickLogin

SpecSeq == SeqInit /\ [][SeqNext]_vars

\* C19: login fills the email, then fills the password, then clicks submit,
\* each action done at most once and only after the previous one: the actions
\* done so far are always a prefix of that list; a returned login has done all
\* three; once a step has thrown nothing more is done; and submit is clicked
\* only with both fields holding the given credentials.
C19_StepsInOrder ==
    /\ [](/\ Len(performed) <= Len(FormActions)
          /\ performed = SubSeq(FormActions, 1, Len(performed)))
    /\ [](spc = "Done" => performed = FormActions)
    /\ []("click submit" \in {performed[k] : k \in DOMAIN performed} =>
              fields = [email |-> sEmail, password |-> sPassword])
    /\ [][spc = "Thrown" => performed' = performed /\ fields' = fields]_vars
    /\ [][sError' # <<>> => performed' = performed /\ spc' = "Thrown"]_vars

\* the password step threw after the email was filled: submit was not clicked
C19_Witness ==
    /\ sVariant = "LoginPage with retry"
    /\ spc = "Thrown"
    /\ sError = <<"enterPassword", "not enabled">>
    /\ performed = <<"fill email">>
    /\ fields.email = sEmail

----------------------------------------------------------------------------
(* The bulk-login test: concurrent calls of testLoginForEmail               *)
(* (specification SpecBulk)                                                 *)

\* const emails = [...]: the first entries of the list
BulkEmails ==
    <<"monitor@maxenpower.com", "hamza@gmail.com",
      "khurram.naveed@maxenpower.com", "rida.mahmood@maxenpower.com">>

\* the email the flow with this index logs in with
FlowEmail(i) == BulkEmails[i]

TicketsUrl == <<Host, "/dashboard/tickets-manager">>

\* the account whose session the setup project saved to .auth/user.json
SavedSession == "saved session of the setup account"

\* `use` of the chromium project: the defaults of every new context
ProjectUse == [storageState |-> ".auth/user.json"]

\* the options without the storageState key
NewContextOptionsNoKey == [baseURL |-> Host]

\* the options testLoginForEmail passes to browser.newContext
NewContextOptions == [baseURL |-> Host, storageState |-> "undefined"]

\* browser.newContext(options): a key of the options, also one set to
\* undefined, overrides the project's default
ContextOptions(options) ==
    [k \in DOMAIN ProjectUse \cup DOMAIN options |->
        IF k \in DOMAIN options THEN options[k] ELSE ProjectUse[k]]

\* a new context holds the session of its storage state, if it was given one
NewContext(i, options) ==
    [creator |-> i,
     storageState |-> ContextOptions(options).storageState,
     session |-> IF ContextOptions(options).storageState = "undefined"
                 THEN "none" ELSE SavedSession,
     url |-> BlankUrl,
     open |-> TRUE,
     users |-> {}]

\* one variable shared by all calls instead of a local of each call
LocalShared(i) == 1

\* `let context; let page;` are locals of each call of testLoginForEmail
Local(i) == i

\* the context the flow works with (0 while its `context` is undefined)
Ctx(i) == slot[Local(i)]

\* an operation of the flow on its `page` or `context`
Use(i, change) ==
    contexts' = [contexts EXCEPT ![Ctx(i)] =
                    [change EXCEPT !.users = contexts[Ctx(i)].users \cup {i}]]

\* the catch clauses: results.failed.push({ email, reason })
Fail(i, reason) ==
    /\ results' = [results EXCEPT !.failed =
                      Append(results.failed, [email |-> FlowEmail(i), reason |-> reason])]
    /\ fpc' = [fpc EXCEPT ![i] = "Finally"]

Goes(i, next) ==
    /\ fpc' = [fpc EXCEPT ![i] = next]
    /\ UNCHANGED results

\* testLoginForEmail(email, index) is called; the stagger wait of index * 200 ms
Start(i) ==
    /\ fpc[i] = "NotStarted"
    /\ Goes(i, "NewContext")
    /\ UNCHANGED <<slot, contexts>>
    /\ UNCHANGED nonBulkVars

\* context = await browser.newContext({...}); page = await context.newPage()
CreateContext(i) ==
    /\ fpc[i] = "NewContext"
    /\ \/ /\ contexts' = Append(contexts, NewContext(i, NewContextOptions))
          /\ slot' = [slot EXCEPT ![Local(i)] = Len(contexts) + 1]
          /\ Goes(i, "Goto")
       \/ /\ contexts' = Append(contexts, NewContext(i, NewContextOptions))
          /\ slot' = [slot EXCEPT ![Local(i)] = Len(contexts) + 1]
          /\ Fail(i, "newPage failed")
       \/ /\ Fail(i, "newContext failed")
          /\ UNCHANGED <<slot, contexts>>
    /\ UNCHANGED nonBulkVars

\* await loginPage.goto(): lands on the login page, or is redirected when the
\* context already holds a session, or throws
GotoLogin(i) ==
    /\ fpc[i] = "Goto"
    /\ \/ /\ Use(i, [contexts[Ctx(i)] EXCEPT !.url =
                        IF contexts[Ctx(i)].session = "none"
                        THEN LoginUrl ELSE WelcomeUrl])
          /\ Goes(i, "Login")
       \/ /\ Use(i, contexts[Ctx(i)])
          /\ Fail(i, "goto failed")
    /\ UNCHANGED slot
    /\ UNCHANGED nonBulkVars

\* await loginPage.login(email, password)
Login(i) ==
    /\ fpc[i] = "Login"
    /\ Use(i, contexts[Ctx(i)])
    /\ \/ /\ Includes(contexts[Ctx(i)].url, <<"/auth/login">>)
          /\ Goes(i, "WaitUrl")
       \/ Fail(i, "login failed")
    /\ UNCHANGED slot
    /\ UNCHANGED nonBulkVars

\* await page.waitForURL(/\/dashboard/): the application accepts the
\* credentials and opens the session, or the wait times out
WaitUrl(i) ==
    /\ fpc[i] = "WaitUrl"
    /\ \/ /\ Use(i, [contexts[Ctx(i)] EXCEPT !.session = FlowEmail(i),
                                              !.url = WelcomeUrl])
          /\ Goes(i, "PostLogin")
       \/ /\ Use(i, contexts[Ctx(i)])
          /\ Fail(i, "Login failed - still on login page")
    /\ UNCHANGED slot
    /\ UNCHANGED nonBulkVars

\* the success record pushed before the navigation steps of the try block
PostLoginEarlyPush(i) ==
    /\ fpc[i] = "PostLogin"
    /\ \/ /\ Use(i, [contexts[Ctx(i)] EXCEPT !.url = TicketsUrl])
          /\ results' = [results EXCEPT !.successful =
                            Append(results.successful, FlowEmail(i))]
       \/ /\ Use(i, contexts[Ctx(i)])
          /\ results' = [successful |-> Append(results.successful, FlowEmail(i)),
                         failed |-> Append(results.failed,
                                           [email |-> FlowEmail(i),
                                            reason |-> "Navigation failed"])]
    /\ fpc' = [fpc EXCEPT ![i] = "Finally"]
    /\ UNCHANGED slot
    /\ UNCHANGED nonBulkVars

\* the welcome page, the tickets manager and its two reloads, then
\* results.successful.push(email); or results.failed.push for a navError;
\* or the else branch for a final URL that is no dashboard route
PostLogin(i) ==
    /\ fpc[i] = "PostLogin"
    /\ \/ /\ Use(i, [contexts[Ctx(i)] EXCEPT !.url = TicketsUrl])
          /\ results' = [results EXCEPT !.successful =
                            Append(results.successful, FlowEmail(i))]
          /\ fpc' = [fpc EXCEPT ![i] = "Finally"]
       \/ /\ Use(i, contexts[Ctx(i)])
          /\ Fail(i, "Navigation failed")
       \/ /\ Use(i, contexts[Ctx(i)])
          /\ Fail(i, "Still on login page after login attempt")
    /\ UNCHANGED slot
    /\ UNCHANGED nonBulkVars

\* a call that returns without running its finally block
FinallyNoClose(i) ==
    /\ fpc[i] = "Finally"
    /\ Goes(i, "Finished")
    /\ UNCHANGED <<slot, contexts>>
    /\ UNCHANGED nonBulkVars

\* finally { if (context) await context.close() }
Finally(i) ==
    /\ fpc[i] = "Finally"
    /\ IF Ctx(i) # 0
       THEN Use(i, [contexts[Ctx(i)] EXCEPT !.open = FALSE])
       ELSE UNCHANGED contexts
    /\ Goes(i, "Finished")
    /\ UNCHANGED slot
    /\ UNCHANGED nonBulkVars

BulkInit == CreateIdle /\ BatchIdle /\ GotoIdle /\ ToastIdle /\ LoginIdle /\ SeqIdle /\ BulkIdle

BulkNext ==
    \/ \E i \in Flows : Start(i)
    \/ \E i \in Flows : CreateContext(i)
    \/ \E i \in Flows : GotoLogin(i)
    \/ \E i \in Flows : Login(i)
    \/ \E i \in Flows : WaitUrl(i)
    \/ \E i \in Flows : PostLogin(i)
    \/ \E i \in Flows : Finally(i)

SpecBulk == BulkInit /\ [][BulkNext]_vars

\* every await of a flow settles: each Playwright call has a timeout
FairSpecBulk == SpecBulk /\ WF_vars(BulkNext)

\* the emails recorded in a list of results.failed
FailedEmails(failed) == [k \in DOMAIN failed |-> failed[k].email]

\* C20: in the bulk-login test every context is created without stored
\* authentication state and holds no session but the one its own flow opens;
\* two flows never work with the same context; a context is used and changed
\* only in steps of the flow that created it; and a step of a flow adds at
\* most that flow's own record to the results and changes no other record.
C20_IsolatedFlows ==
    /\ [](\A c \in DOMAIN contexts :
            /\ contexts[c].storageState = "undefined"
            /\ contexts[c].session \in {"none", FlowEmail(contexts[c].creator)}
            /\ contexts[c].users \subseteq {contexts[c].creator})
    /\ [](\A i, j \in Flows :
            (i # j /\ Ctx(i) # 0 /\ Ctx(j) # 0) => Ctx(i) # Ctx(j))
    /\ [][\A c \in DOMAIN contexts :
            contexts'[c] # contexts[c] =>
                fpc'[contexts[c].creator] # fpc[contexts[c].creator]]_vars
    /\ [][\A i \in Flows :
            fpc'[i] # fpc[i] =>
                /\ results'.successful \in
                      {results.successful, Append(results.successful, FlowEmail(i))}
                /\ FailedEmails(results'.failed) \in
                      {FailedEmails(results.failed),
                       Append(FailedEmails(results.failed), FlowEmail(i))}]_vars

\* both flows were on the login route in their own contexts; the first one is
\* logged in, the second one still has no session
C20_Witness ==
    /\ fpc[1] = "PostLogin"
    /\ fpc[2] = "WaitUrl"
    /\ Ctx(1) # Ctx(2)
    /\ contexts[Ctx(1)].session = FlowEmail(1)
    /\ contexts[Ctx(2)].session = "none"
    /\ contexts[Ctx(2)].url = LoginUrl

\* the contexts the flow created
CreatedBy(i) == {c \in DOMAIN contexts : contexts[c].creator = i}

\* C24: every browser context testLoginForEmail creates is closed when the
\* call finishes, whatever path the call took, and an open context is
\* eventually closed.
C24_ContextClosed ==
    /\ [](\A i \in Flows :
            fpc[i] = "Finished" => \A c \in CreatedBy(i) : ~contexts[c].open)
    /\ \A i \in Flows :
          [](CreatedBy(i) # {} => <>(\A c \in CreatedBy(i) : ~contexts[c].open))

\* a flow whose navigation after the login failed has finished, and another
\* one whose page could not be opened: both contexts are closed
C24_Witness ==
    /\ fpc = [i \in Flows |-> "Finished"]
    /\ \E k \in DOMAIN results.failed :
          results.failed[k] = [email |-> FlowEmail(1), reason |-> "Navigation failed"]
    /\ \E k \in DOMAIN results.failed :
          results.failed[k] = [email |-> FlowEmail(2), reason |-> "newPage failed"]
    /\ CreatedBy(1) # {} /\ CreatedBy(2) # {}
    /\ \A c \in DOMAIN contexts : ~contexts[c].open

\* how many entries of a list are this email
RECURSIVE Occurrences(_, _)
Occurrences(list, email) ==
    IF list = <<>> THEN 0
    ELSE (IF Head(list) = email THEN 1 ELSE 0) + Occurrences(Tail(list), email)

\* the number of records of an email in the two lists of results
Records(email) ==
    [successful |-> Occurrences(results.successful, email),
     failed |-> Occurrences(FailedEmails(results.failed), email)]

\* Promise.all has resolved: the summary is printed from these results
AtSummary == \A i \in Flows : fpc[i] = "Finished"

\* C25: when the summary is printed, every email has exactly one record, in
\* results.successful or in results.failed and not in both; while the flows
\* run concurrently, a flow that has passed its push has exactly one record
\* and a flow that has not has none.
C25_RecordedOnce ==
    /\ AtSummary =>
          \A i \in Flows :
              Records(FlowEmail(i)) \in {[successful |-> 1, failed |-> 0],
                                        [successful |-> 0, failed |-> 1]}
    /\ \A i \in Flows :
          Records(FlowEmail(i)).successful + Records(FlowEmail(i)).failed =
              IF fpc[i] \in {"Finally", "Finished"} THEN 1 ELSE 0
    /\ Len(results.successful) + Len(results.failed) =
          Cardinality({i \in Flows : fpc[i] \in {"Finally", "Finished"}})

\* at the summary the second email is recorded as successful and the first
\* one, whose flow started first, as failed after it
C25_Witness ==
    /\ AtSummary
    /\ results.successful = <<FlowEmail(2)>>
    /\ FailedEmails(results.failed) = <<FlowEmail(1)>>
    /\ results.failed[1].reason = "Navigation failed"

----------------------------------------------------------------------------
(* The bulk-login test: the batch loop (specification SpecBatch).  A flow   *)
(* is followed through the lifetime of its browser context only.            *)

\* const BATCH_SIZE = 10
BATCH_SIZE == 10

\* batches.length: one batch per BATCH_SIZE emails, the last one shorter
NumBatches == (NumEmails + BATCH_SIZE - 1) \div BATCH_SIZE

\* emails.slice(i, i + BATCH_SIZE) for i = k * BATCH_SIZE, as list positions
Batch(k) ==
    {i \in EmailIndexes : k * BATCH_SIZE < i /\ i <= (k + 1) * BATCH_SIZE}

\* a promise that settles with the first flow that returns
PromiseAny(batch) == \E i \in batch : life[i] = "Returned"

\* Promise.all over the calls of the batch: testLoginForEmail catches every
\* error of its steps, so the promise resolves when every call has returned
PromiseAll(batch) == \A i \in batch : life[i] = "Returned"

\* the test body reaches the batch loop; batches are built from the list
BT_Begin ==
    /\ bpc = "NotStarted"
    /\ bpc' = "LoopHead"
    /\ batchIndex' = 0
    /\ UNCHANGED <<life, open>>
    /\ UNCHANGED nonBatchVars

\* for (batchIndex < batches.length): batch.map calls testLoginForEmail for
\* every email of the batch, each call running up to its first await
BT_StartBatch ==
    /\ bpc = "LoopHead"
    /\ IF batchIndex < NumBatches
       THEN /\ life' = [i \in EmailIndexes |->
                           IF i \in Batch(batchIndex) THEN "Started" ELSE life[i]]
            /\ bpc' = "Awaiting"
       ELSE /\ bpc' = "Summary"
            /\ UNCHANGED life
    /\ UNCHANGED <<batchIndex, open>>
    /\ UNCHANGED nonBatchVars

\* a flow after its stagger wait: browser.newContext gives it a context, or
\* throws and the call returns through catch and finally without one
FlowOpens(i) ==
    /\ life[i] = "Started"
    /\ \/ /\ life' = [life EXCEPT ![i] = "Working"]
          /\ open' = open \cup {i}
       \/ /\ life' = [life EXCEPT ![i] = "Returned"]
          /\ UNCHANGED open
    /\ UNCHANGED <<bpc, batchIndex>>
    /\ UNCHANGED nonBatchVars

\* the rest of the call: its steps, the record in results, and the finally
\* block that closes the context before the call returns
FlowReturns(i) ==
    /\ life[i] = "Working"
    /\ life' = [life EXCEPT ![i] = "Returned"]
    /\ open' = open \ {i}
    /\ UNCHANGED <<bpc, batchIndex>>
    /\ UNCHANGED nonBatchVars

\* await Promise.all(...) resolves; the 2 s pause follows unless this was
\* the last batch
BT_Resolved ==
    /\ bpc = "Awaiting"
    /\ PromiseAll(Batch(batchIndex))
    /\ IF batchIndex < NumBatches - 1
       THEN /\ bpc' = "Pause"
            /\ UNCHANGED batchIndex
       ELSE /\ bpc' = "LoopHead"
            /\ batchIndex' = batchIndex + 1
    /\ UNCHANGED <<life, open>>
    /\ UNCHANGED nonBatchVars

\* the pause between batches is over; batchIndex++
BT_Pause ==
    /\ bpc = "Pause"
    /\ bpc' = "LoopHead"
    /\ batchIndex' = batchIndex + 1
    /\ UNCHANGED <<life, open>>
    /\ UNCHANGED nonBatchVars

\* the summary is printed
BT_Summary ==
    /\ bpc = "Summary"
    /\ bpc' = "Finished"
    /\ UNCHANGED <<batchIndex, life, open>>
    /\ UNCHANGED nonBatchVars

BatchInit == CreateIdle /\ GotoIdle /\ ToastIdle /\ LoginIdle /\ SeqIdle /\ BulkIdle /\ BatchIdle

BatchNext ==
    \/ BT_Begin
    \/ BT_StartBatch
    \/ \E i \in EmailIndexes : FlowOpens(i)
    \/ \E i \in EmailIndexes : FlowReturns(i)
    \/ BT_Resolved
    \/ BT_Pause
    \/ BT_Summary

SpecBatch == BatchInit /\ [][BatchNext]_vars

\* the flows that have been called and have not returned
RunningFlows == {i \in EmailIndexes : life[i] \in {"Started", "Working"}}

\* the batch of an email, by its position in the list
BatchOf(i) == (i - 1) \div BATCH_SIZE

\* C23: at most 10 login flows run at the same time, and no flow of a later
\* batch has been called before every flow of each earlier batch has
\* returned with its browser context closed.
C23_BatchesInSequence ==
    /\ Cardinality(RunningFlows) <= 10
    /\ Cardinality(open) <= 10
    /\ \A i, j \in EmailIndexes :
          (BatchOf(i) < BatchOf(j) /\ life[j] # "Pending") =>
              life[i] = "Returned" /\ i \notin open

\* the second batch is running after all ten flows of the first one returned
C23_Witness ==
    /\ bpc = "Awaiting"
    /\ batchIndex = 1
    /\ life[BATCH_SIZE + 1] = "Working"
    /\ \A i \in 1..BATCH_SIZE : life[i] = "Returned"

----------------------------------------------------------------------------
(* TimesheetPage.createTimesheetIfNeeded (specification SpecCreate)         *)

\* the weeks the dialog can show: the current one and its neighbours
Weeks == {-1, 0, 1}

\* the call starts on a loaded timesheet page
InitCreate ==
    /\ cpc = "Idle"
    /\ addActivity \in {"hidden", "disabled", "enabled"}
    /\ atStart = addActivity
    /\ modal = FALSE
    /\ week = 0
    /\ full \in SUBSET Weeks
    /\ weekButtons \in SUBSET {"next", "previous"}
    /\ clicks = <<>>
    /\ reported = <<>>
    /\ observed = FALSE
    /\ cError = "none"

\* the catch block of isAddActivityButtonEnabled returning true
IsAddActivityButtonEnabledOnTimeout(button) == button # "disabled"

\* isAddActivityButtonEnabled: waits for the button to be visible and reads
\* isEnabled(); false when the wait times out
IsAddActivityButtonEnabled(button) == button = "enabled"

\* navigateToNextWeekInModal: clicks the button if it gets visible
NavigateToNextWeekInModal(w, visible) ==
    IF "next" \in visible THEN w + 1 ELSE w

\* navigateToPreviousWeekInModal: clicks the button if it gets visible
NavigateToPreviousWeekInModal(w, visible) ==
    IF "previous" \in visible THEN w - 1 ELSE w

\* allDaysExistMessage.isVisible(): the dialog shows the message for a week
\* in which every day has a timesheet
AllDaysExist(w) == w \in full

CT_Throw(message) ==
    /\ cpc' = "Thrown"
    /\ cError' = message

CT_Call ==
    /\ cpc = "Idle"
    /\ cpc' = "Check"
    /\ UNCHANGED <<addActivity, atStart, modal, week, full, weekButtons,
                   clicks, reported, observed, cError>>
    /\ UNCHANGED nonCreateVars

\* const isEnabled = await this.isAddActivityButtonEnabled(); if (!isEnabled)
CT_Check ==
    /\ cpc = "Check"
    /\ observed' = (addActivity = "enabled")
    /\ cpc' = IF IsAddActivityButtonEnabled(addActivity) THEN "Done" ELSE "OpenModal"
    /\ UNCHANGED <<addActivity, atStart, modal, week, full, weekButtons,
                   clicks, reported, cError>>
    /\ UNCHANGED nonCreateVars

\* ensureMyViewMode, openCreateTimesheetModal: the Add Timesheet button is
\* clicked and the dialog appears, or one of the waits throws
CT_OpenModal ==
    /\ cpc = "OpenModal"
    /\ \/ /\ clicks' = Append(clicks, "Add Timesheet")
          /\ modal' = TRUE
          /\ cpc' = "SingleMode"
          /\ UNCHANGED cError
       \/ /\ CT_Throw("Add Timesheet button not found")
          /\ UNCHANGED <<clicks, modal>>
       \/ /\ clicks' = Append(clicks, "Add Timesheet")
          /\ CT_Throw("dialog did not appear")
          /\ UNCHANGED modal
    /\ UNCHANGED <<addActivity, atStart, week, full, weekButtons, reported,
                   observed>>
    /\ UNCHANGED nonCreateVars

\* the single day mode button is clicked if it is visible
CT_SingleMode ==
    /\ cpc = "SingleMode"
    /\ \/ clicks' = Append(clicks, "Single Mode")
       \/ UNCHANGED clicks
    /\ cpc' = "AllDays"
    /\ UNCHANGED <<addActivity, atStart, modal, week, full, weekButtons,
                   reported, observed, cError>>
    /\ UNCHANGED nonCreateVars

\* const allDaysExist = ...; if (allDaysExist)
CT_AllDays ==
    /\ cpc = "AllDays"
    /\ IF AllDaysExist(week)
       THEN reported' = Append(reported, week) /\ cpc' = "NextWeek"
       ELSE UNCHANGED reported /\ cpc' = "SelectDay"
    /\ UNCHANGED <<addActivity, atStart, modal, week, full, weekButtons,
                   clicks, observed, cError>>
    /\ UNCHANGED nonCreateVars

\* await this.navigateToNextWeekInModal(); const stillAllExist = ...;
\* if (stillAllExist)
CT_NextWeek ==
    /\ cpc = "NextWeek"
    /\ week' = NavigateToNextWeekInModal(week, weekButtons)
    /\ clicks' = IF week' # week THEN Append(clicks, "Next Week") ELSE clicks
    /\ IF AllDaysExist(week')
       THEN reported' = Append(reported, week') /\ cpc' = "PreviousWeek"
       ELSE UNCHANGED reported /\ cpc' = "SelectDay"
    /\ UNCHANGED <<addActivity, atStart, modal, full, weekButtons, observed,
                   cError>>
    /\ UNCHANGED nonCreateVars

\* await this.navigateToPreviousWeekInModal()
CT_PreviousWeek ==
    /\ cpc = "PreviousWeek"
    /\ week' = NavigateToPreviousWeekInModal(week, weekButtons)
    /\ clicks' = IF week' # week THEN Append(clicks, "Previous Week") ELSE clicks
    /\ cpc' = "SelectDay"
    /\ UNCHANGED <<addActivity, atStart, modal, full, weekButtons, reported,
                   observed, cError>>
    /\ UNCHANGED nonCreateVars

\* in single mode the first day button that is not disabled is clicked, if
\* there is one
CT_SelectDay ==
    /\ cpc = "SelectDay"
    /\ \/ /\ ~AllDaysExist(week)
          /\ clicks' = Append(clicks, "day")
       \/ UNCHANGED clicks
    /\ cpc' = "Submit"
    /\ UNCHANGED <<addActivity, atStart, modal, week, full, weekButtons,
                   reported, observed, cError>>
    /\ UNCHANGED nonCreateVars

\* the submit button: it is enabled only for a week with a free day; the
\* click creates the timesheet and the dialog closes, or the creation fails
CT_Submit ==
    /\ cpc = "Submit"
    /\ \/ /\ ~AllDaysExist(week)
          /\ clicks' = Append(clicks, "Create Submit")
          /\ \/ modal' = FALSE /\ addActivity' = "enabled"
             \/ UNCHANGED <<modal, addActivity>>
          /\ cpc' = "Verify"
          /\ UNCHANGED cError
       \/ /\ CT_Throw("Cannot create timesheet")
          /\ UNCHANGED <<clicks, modal, addActivity>>
    /\ UNCHANGED <<atStart, week, full, weekButtons, reported, observed>>
    /\ UNCHANGED nonCreateVars

\* await expect(addActivityButton).toBeEnabled({ timeout: 15000 })
CT_Verify ==
    /\ cpc = "Verify"
    /\ IF addActivity = "enabled"
       THEN /\ observed' = TRUE
            /\ cpc' = "Done"
            /\ UNCHANGED cError
       ELSE /\ CT_Throw("toBeEnabled")
            /\ UNCHANGED observed
    /\ UNCHANGED <<addActivity, atStart, modal, week, full, weekButtons,
                   clicks, reported>>
    /\ UNCHANGED nonCreateVars

CreateInit ==
    /\ GotoIdle /\ ToastIdle /\ LoginIdle /\ SeqIdle /\ BulkIdle /\ BatchIdle
    /\ InitCreate

CreateNext ==
    \/ CT_Call
    \/ CT_Check
    \/ CT_OpenModal
    \/ CT_SingleMode
    \/ CT_AllDays
    \/ CT_NextWeek
    \/ CT_PreviousWeek
    \/ CT_SelectDay
    \/ CT_Submit
    \/ CT_Verify

SpecCreate == CreateInit /\ [][CreateNext]_vars

\* the call is past its week navigation
WeekChosen == cpc \in {"SelectDay", "Submit", "Verify", "Done", "Thrown"}

\* C27 (as claimed): when the current week and then the next week both
\* showed the all-days message and both week buttons were clicked, the week
\* shown for picking a day is neither of those two: it is the week before
\* the current one.
C27_FallbackWeek ==
    (/\ WeekChosen
     /\ reported = <<0, 1>>
     /\ \E k \in DOMAIN clicks : clicks[k] = "Previous Week") =>
        /\ week \notin {0, 1}
        /\ week = -1

\* C28: a call of createTimesheetIfNeeded that returned normally has seen the
\* Add Activity button enabled; and a call that started with the button
\* visible and enabled opens no dialog and clicks nothing.
C28_ReturnsOnlyWhenEnabled ==
    /\ cpc = "Done" => observed
    /\ atStart = "enabled" =>
          /\ clicks = <<>>
          /\ ~modal
          /\ cpc \in {"Idle", "Check", "Done"}

\* the call returned after the button, disabled at the start, got enabled by
\* the timesheet created for the next week
C28_Witness ==
    /\ cpc = "Done"
    /\ atStart = "disabled"
    /\ observed
    /\ week = 1
    /\ clicks = <<"Add Timesheet", "Single Mode", "Next Week", "day", "Create Submit">>

\* the call returned at once: the button was enabled at the start
C28_WitnessNoOp ==
    /\ cpc = "Done"
    /\ atStart = "enabled"
    /\ observed

====
